---- MODULE Spec2Model ----
(***************************************************************************)
(* Session core of the voice agent: the trace store (rounds and events),   *)
(* the guard state machine with its authority gate, the router, the memory *)
(* store, and the orchestrator handler that drives them.                   *)
(*                                                                         *)
(* SpecTrace : threads calling one TraceStore concurrently.                *)
(* SpecTraceLive: SpecTrace with threads that run and locks that are fair. *)
(* SpecGuard : the handler's calls on the shared StateTracker, utterance   *)
(*             by utterance, for several conversations.                    *)
(* SpecRound : the handler with its trace and memory writes and the        *)
(*             _process_decision tasks it creates, on one event loop.      *)
(* SpecRouter : one call of decide_route on a transcript.                  *)
(* SpecTracker: the StateTracker methods and _apply_state_transition,      *)
(*             called in any order.                                        *)
(* SpecMemory : the MemoryStore methods, called one after the other.       *)
(* SpecStore  : the TraceStore methods, called one after the other.        *)
(* SpecFault  : SpecRound with append_event raising inside the handler.    *)
(* SpecCache  : get_context_package step by step beside MemoryStore writers.*)
(* SpecContext: the writers of one bucket holding up to eleven items.      *)
(***************************************************************************)
EXTENDS Integers, Sequences, FiniteSets, TLC

VARIABLES
    rounds,       \* rows of table rounds, in insertion order
    events,       \* rows of table events, in insertion order (id = index)
    lock,         \* TraceStore._lock: "free" or the thread holding it
    conv_locks,   \* TraceStore._conv_locks: conversation -> "absent" | "free" | thread
    pc,           \* position of each thread inside a TraceStore call
    tl,           \* locals of each thread's current call
    exported,     \* lines of the file export_jsonl wrote last
    ret_rounds,   \* per conversation: round_seq values start_round returned, in effect order
    ret_events,   \* per round: event_seq values append_event allocated itself, in effect order
    explicit_in,  \* round ids that received an append_event with an explicit event_seq
    tracker,      \* state_tracker: the module-level StateTracker instance
    undo_tasks,   \* _process_decision tasks created for state.undo that have not run yet
    owner,        \* history: the conversation whose utterance created the pending, and how
                  \* often its command was submitted since
    obs,          \* history: what the last call on the tracker saw and answered
    tasks,        \* _process_decision tasks created and not finished: round, position, attempt
    served,       \* history: the decision of each round, by round id
    ran,          \* history: the command handlers run, as [round_id, command_id]
    memory,       \* memory_store: the tables of the module-level MemoryStore instance
    raised,       \* history: the rounds whose handler ended by an exception
    reader,       \* the thread inside get_context_package: position, bucket, rebuilds made
    route,        \* one call of decide_route: its phase, arguments and return value
    tcall,        \* history: the last direct call on the tracker, what it saw and returned
    now,          \* time.time(), in units of 1/decay seconds
    mcall,        \* history: the last direct call on the memory store and what it returned
    scall         \* history: the last direct call on the trace store, what it found and
                  \* returned, and the mark_round inputs of each round

trace_vars == <<rounds, events, lock, conv_locks, pc, tl, exported,
                ret_rounds, ret_events, explicit_in>>

guard_vars == <<tracker, undo_tasks, owner, obs>>

round_vars == <<tasks, served, ran, memory, raised, reader>>

unit_vars == <<route, tcall, now, mcall, scall>>

vars == <<trace_vars, guard_vars, round_vars, unit_vars>>

-----------------------------------------------------------------------------
(* Bounds *)

MaxRows == 3            \* rows (rounds and events together) one store holds

Threads == {"t1", "t2"}
Convs == {"A", "B"}
None == "None"
UnknownRound == 0       \* a round id no start_round returned
NoSeq == 0              \* event_seq=None: the caller supplies no sequence number
RoundIds == 1..MaxRows
ExplicitSeqs == {1, 3}      \* event_seq values a caller supplies itself
MarkInputs ==
    { [status |-> "ok", state_out |-> None, failure_code |-> None, failure_reason |-> None],
      [status |-> "failed", state_out |-> "DEFAULT", failure_code |-> "x", failure_reason |-> "oops"] }

-----------------------------------------------------------------------------
(* Helpers *)

SeqMax(S) == IF S = {} THEN 0 ELSE CHOOSE m \in S : \A x \in S : x <= m

Range(s) == {s[i] : i \in DOMAIN s}

\* Every arrangement of the rows S in a list (fetchall before ordering)
Arrangements(S) ==
    { s \in [1..Cardinality(S) -> S] :
        \A i, j \in 1..Cardinality(S) : i # j => s[i] # s[j] }

-----------------------------------------------------------------------------
(* TraceStore: the SQL statements as operators on the tables *)

\* SELECT COALESCE(MAX(round_seq), 0) + 1 FROM rounds WHERE conversation_id = ?
NextRoundSeqAllConvs(rs, conv) ==
    SeqMax({rs[i].round_seq : i \in DOMAIN rs}) + 1

NextRoundSeq(rs, conv) ==
    SeqMax({rs[i].round_seq : i \in {j \in DOMAIN rs : rs[j].conversation_id = conv}}) + 1

\* new_round_id(): a fresh unique token; the n-th round gets token n
NewRoundId(rs) == Len(rs) + 1

\* time.time() at the insert: read under the global lock after the previous round's
\* commit, so later than every stored created_at
Now(rs) == Len(rs) + 1

\* INSERT INTO rounds ... (state_out NULL, status "ok", no failure)
InsertRound(rs, conv, state_in) ==
    Append(rs, [round_id |-> NewRoundId(rs),
                conversation_id |-> conv,
                round_seq |-> NextRoundSeq(rs, conv),
                state_in |-> state_in,
                state_out |-> None,
                created_at |-> Now(rs),
                status |-> "ok",
                failure_code |-> None,
                failure_reason |-> None])

\* SELECT COALESCE(MAX(event_seq), 0) + 1 FROM events WHERE round_id = ?
NextEventSeqNoIncrement(es, rid) ==
    SeqMax({es[i].event_seq : i \in {j \in DOMAIN es : es[j].round_id = rid}})

NextEventSeq(es, rid) ==
    SeqMax({es[i].event_seq : i \in {j \in DOMAIN es : es[j].round_id = rid}}) + 1

\* append_event: event_seq is the caller's when given, else allocated
EventSeqFor(es, rid, given) ==
    IF given = NoSeq THEN NextEventSeq(es, rid) ELSE given

\* INSERT INTO events ... (id AUTOINCREMENT)
InsertEvent(es, rid, given, etype, status) ==
    Append(es, [id |-> Len(es) + 1,
                round_id |-> rid,
                event_seq |-> EventSeqFor(es, rid, given),
                event_type |-> etype,
                status |-> status])

\* the UPDATE of mark_round without its WHERE clause
UpdateRoundAllRows(rs, rid, m) ==
    [i \in DOMAIN rs |->
        [rs[i] EXCEPT !.status = m.status,
                      !.state_out = IF m.state_out = None THEN @ ELSE m.state_out,
                      !.failure_code = m.failure_code,
                      !.failure_reason = m.failure_reason]]

\* UPDATE rounds SET status = ?, state_out = COALESCE(?, state_out),
\*                   failure_code = ?, failure_reason = ? WHERE round_id = ?
UpdateRound(rs, rid, m) ==
    [i \in DOMAIN rs |->
        IF rs[i].round_id = rid
        THEN [rs[i] EXCEPT !.status = m.status,
                           !.state_out = IF m.state_out = None THEN @ ELSE m.state_out,
                           !.failure_code = m.failure_code,
                           !.failure_reason = m.failure_reason]
        ELSE rs[i]]

EventRows(es, rid) == {es[i] : i \in {j \in DOMAIN es : es[j].round_id = rid}}

EventSeqLeq(a, b) == a.event_seq <= b.event_seq

EventIdLeq(a, b) == a.id <= b.id

\* the comparison of ORDER BY event_seq ASC
EventOrder(a, b) == EventSeqLeq(a, b)

\* SELECT * FROM events WHERE round_id = ? ORDER BY event_seq ASC: the possible results
\* (rows with equal event_seq come in either order)
FetchEvents(es, rid) ==
    { s \in Arrangements(EventRows(es, rid)) :
        \A i \in 1..(Len(s) - 1) : EventOrder(s[i], s[i + 1]) }

\* SELECT * FROM rounds WHERE round_id = ?
FetchRound(rs, rid) ==
    IF \E i \in DOMAIN rs : rs[i].round_id = rid
    THEN rs[CHOOSE i \in DOMAIN rs : rs[i].round_id = rid]
    ELSE None

RoundLeq(a, b) ==
    \/ a.created_at < b.created_at
    \/ a.created_at = b.created_at /\ a.round_seq <= b.round_seq

\* SELECT * FROM rounds ORDER BY created_at ASC, round_seq ASC: the possible results
ExportRows(rs) ==
    { s \in Arrangements(Range(rs)) :
        \A i \in 1..(Len(s) - 1) : RoundLeq(s[i], s[i + 1]) }

RoundLine(r) == [type |-> "round", round_id |-> r.round_id, seq |-> r.round_seq, id |-> 0]

EventLine(e) == [type |-> "event", round_id |-> e.round_id, seq |-> e.event_seq, id |-> e.id]

EventLines(evs) == [i \in 1..Len(evs) |-> EventLine(evs[i])]

-----------------------------------------------------------------------------
(* Router: the rule table and decide_route *)

NoLevel == 0            \* no authority_level key / current_chain_level None
NoPriority == -1        \* best_priority None
NoGroup == 0            \* topic_group None

Rule(name, type, priority, command_id, facet_id, confirm, urgency, level, group) ==
    [name |-> name, rule_type |-> type, priority |-> priority, command_id |-> command_id,
     facet_id |-> facet_id, require_confirm |-> confirm, urgency |-> urgency,
     authority_level |-> level, topic_group |-> group]

DEFAULT_ROUTER_RULES == <<
    Rule("ops.restart", "command", 10, "ops.restart_agent", None, TRUE, "high", 3, NoGroup),
    Rule("ops.status", "command", 15, "ops.status", None, FALSE, "normal", 1, NoGroup),
    Rule("voice.set_voice", "command", 20, "voice.set_voice", None, FALSE, "normal", 1, 1),
    Rule("state.enter_conversation", "command", 5, "state.enter_conversation", None, TRUE, "normal", 3, NoGroup),
    Rule("state.enter_planning", "command", 4, "state.enter_planning", None, TRUE, "normal", 4, NoGroup),
    Rule("state.exit", "command", 6, "state.exit", None, FALSE, "normal", 1, NoGroup),
    Rule("state.confirm", "command", 7, "state.confirm", None, FALSE, "normal", 1, NoGroup),
    Rule("state.undo", "command", 8, "state.undo", None, FALSE, "normal", 1, NoGroup),
    Rule("research.intent", "research", 30, None, "facet.research", FALSE, "normal", 1, NoGroup),
    Rule("research.launch", "command", 25, "job.create", None, FALSE, "normal", 2, 2),
    Rule("job.status", "command", 26, "job.status", None, FALSE, "normal", 1, 1),
    Rule("job.list", "command", 34, "job.list", None, FALSE, "normal", 1, NoGroup),
    Rule("settings.intent", "facet", 40, None, "facet.settings", FALSE, "normal", 1, NoGroup),
    Rule("memory.intent", "facet", 50, None, "facet.memory", FALSE, "normal", 1, NoGroup),
    Rule("memory.show", "command", 25, "memory.show_bucket", None, FALSE, "normal", 1, 2),
    Rule("memory.list", "command", 35, "memory.list_buckets", None, FALSE, "normal", 1, NoGroup),
    Rule("memory.append", "command", 28, "memory.add_note", None, FALSE, "normal", 2, 2),
    Rule("memory.clear", "command", 22, "memory.clear_bucket", None, TRUE, "normal", 3, 2) >>

RuleIds == DOMAIN DEFAULT_ROUTER_RULES

\* An utterance is given by the rules whose pattern matches its normalized text.
Utterances == {m \in SUBSET RuleIds : Cardinality(m) <= 2}

\* the loop of decide_route over the table from rule i on: best_matches at its end
RECURSIVE ScanRules(_, _, _, _)
ScanRules(i, matched, best_priority, best_matches) ==
    IF i > Len(DEFAULT_ROUTER_RULES) THEN best_matches
    ELSE IF i \notin matched THEN ScanRules(i + 1, matched, best_priority, best_matches)
    ELSE IF best_priority = NoPriority \/ DEFAULT_ROUTER_RULES[i].priority < best_priority
         THEN ScanRules(i + 1, matched, DEFAULT_ROUTER_RULES[i].priority, <<i>>)
    ELSE IF DEFAULT_ROUTER_RULES[i].priority = best_priority
         THEN ScanRules(i + 1, matched, best_priority, Append(best_matches, i))
    ELSE ScanRules(i + 1, matched, best_priority, best_matches)

\* the first matching rule of the table, whatever its priority
BestMatchesTableOrder(matched) ==
    IF matched = {} THEN <<>> ELSE <<CHOOSE i \in matched : \A j \in matched : i <= j>>

BestMatches(matched) == ScanRules(1, matched, NoPriority, <<>>)

\* the conflict list without the first candidate
ConflictIdsWithoutFirst(best_matches) ==
    LET rest == Tail(best_matches) IN
    [k \in DOMAIN rest |->
        IF DEFAULT_ROUTER_RULES[rest[k]].command_id # None
        THEN DEFAULT_ROUTER_RULES[rest[k]].command_id
        ELSE DEFAULT_ROUTER_RULES[rest[k]].name]

\* [r.command_id or r.name for r, _ in best_matches if r.command_id or r.facet_id]
RECURSIVE ConflictIds(_)
ConflictIds(best_matches) ==
    IF best_matches = <<>> THEN <<>>
    ELSE LET r == DEFAULT_ROUTER_RULES[Head(best_matches)]
         IN (IF r.command_id # None \/ r.facet_id # None
             THEN <<IF r.command_id # None THEN r.command_id ELSE r.name>>
             ELSE <<>>) \o ConflictIds(Tail(best_matches))

ChatDecision ==
    [type |-> "chat", command_id |-> None, facet_id |-> None, topic |-> "normalized",
     require_confirm |-> FALSE, urgency |-> None, authority_level |-> NoLevel,
     source_rule |-> None, has_conflicts |-> FALSE, conflicts |-> <<>>]

\* decide_route for a text matched by the rules in matched; a rule with a topic group
\* yields the captured topic
DecideRoute(matched) ==
    LET best_matches == BestMatches(matched) IN
    IF best_matches = <<>> THEN ChatDecision
    ELSE LET rule == DEFAULT_ROUTER_RULES[best_matches[1]] IN
         [type |-> rule.rule_type,
          command_id |-> rule.command_id,
          facet_id |-> rule.facet_id,
          topic |-> IF rule.topic_group # NoGroup THEN "topic" ELSE None,
          require_confirm |-> rule.require_confirm,
          urgency |-> rule.urgency,
          authority_level |-> rule.authority_level,
          source_rule |-> rule.name,
          has_conflicts |-> Len(best_matches) > 1,
          conflicts |-> IF Len(best_matches) > 1 THEN ConflictIds(best_matches) ELSE <<>>]

\* the decisions decide_route returns for the utterances
Decisions == {DecideRoute(m) : m \in Utterances}

MaxLen == 3             \* characters of a transcript

\* a lower-case letter, an upper-case letter, two kinds of whitespace, punctuation, hyphen
Chars == {"a", "A", " ", "\t", "!", "-"}

Whitespace == {" ", "\t"}

Transcripts == UNION {[1..n -> Chars] : n \in 0..MaxLen}

\* str.lower on one character
Lower(c) == IF c = "A" THEN "a" ELSE c

\* re.sub(r"[^\w\s-]", " ", ...) on one character
Cleaned(c) == IF c \in {"a", "A", "-"} \cup Whitespace THEN c ELSE " "

RECURSIVE DropWhitespace(_)
DropWhitespace(s) ==
    IF s # <<>> /\ Head(s) \in Whitespace THEN DropWhitespace(Tail(s)) ELSE s

\* re.sub(r"\s+", " ", ...)
RECURSIVE CollapseWhitespace(_)
CollapseWhitespace(s) ==
    IF s = <<>> THEN <<>>
    ELSE IF Head(s) \in Whitespace THEN <<" ">> \o CollapseWhitespace(DropWhitespace(s))
    ELSE <<Head(s)>> \o CollapseWhitespace(Tail(s))

\* str.strip
Strip(s) ==
    LET inner == {i \in DOMAIN s : s[i] \notin Whitespace} IN
    IF inner = {} THEN <<>>
    ELSE SubSeq(s, CHOOSE i \in inner : \A j \in inner : i <= j,
                   CHOOSE i \in inner : \A j \in inner : j <= i)

NormalizeText(text) ==
    Strip(CollapseWhitespace([i \in DOMAIN text |-> Cleaned(Lower(text[i]))]))

\* decide_route with the topic of the unmatched case left as the transcript came in
DecideRouteRawTopic(transcript, matched) ==
    IF BestMatches(matched) = <<>>
    THEN [ChatDecision EXCEPT !.topic = transcript]
    ELSE DecideRoute(matched)

\* decide_route(transcript), the rules in matched being those whose pattern matches
DecideRouteOf(transcript, matched) ==
    IF BestMatches(matched) = <<>>
    THEN [ChatDecision EXCEPT !.topic = NormalizeText(transcript)]
    ELSE DecideRoute(matched)

-----------------------------------------------------------------------------
(* StateTracker *)

NoPending == [command_id |-> None, authority_level |-> NoLevel]

\* StateTracker.__init__
NewTracker ==
    [current_state |-> "DEFAULT", pending |-> NoPending, last_level2 |-> NoPending,
     current_chain_level |-> NoLevel, state_in_round |-> None]

\* enter_state that only sets the state
EnterStateKeepsPending(g, target) == [g EXCEPT !.current_state = target]

EnterState(g, target) ==
    [g EXCEPT !.current_state = target, !.pending = NoPending, !.current_chain_level = NoLevel]

CaptureStateIn(g) == [g EXCEPT !.state_in_round = g.current_state]

StateOut(g) == g.current_state

AssertStateUnchanged(g) ==
    IF g.state_in_round # None /\ g.current_state # g.state_in_round
    THEN [g EXCEPT !.current_state = g.state_in_round]
    ELSE g

\* start_pending that keeps a pending already in place
StartPendingKeepsOlder(g, decision) ==
    IF g.pending.command_id # None THEN g
    ELSE [g EXCEPT !.pending = [command_id |-> decision.command_id,
                                authority_level |-> decision.authority_level]]

StartPending(g, decision) ==
    [g EXCEPT !.pending = [command_id |-> decision.command_id,
                           authority_level |-> decision.authority_level]]

\* confirm_pending that leaves the slot as it is
ConfirmPendingKeeps(g) == g

\* confirm_pending returns g.pending and leaves the slot empty
ConfirmPending(g) == [g EXCEPT !.pending = NoPending]

ClearPending(g) == [g EXCEPT !.pending = NoPending]

RegisterLevel2(g, decision) ==
    [g EXCEPT !.last_level2 = [command_id |-> decision.command_id,
                               authority_level |-> decision.authority_level]]

\* undo_last that leaves the slot as it is
UndoLastKeepsSlot(g) == g

\* undo_last returns g.last_level2.command_id and leaves the slot empty
UndoLast(g) == [g EXCEPT !.last_level2 = NoPending]

SetChainLevel(g, level) == [g EXCEPT !.current_chain_level = level]

\* is_command_allowed without the test of the guard state
IsCommandAllowedAnyState(g, authority_level) ==
    ~(g.current_chain_level # NoLevel /\ authority_level > g.current_chain_level)

IsCommandAllowed(g, authority_level) ==
    IF g.current_chain_level # NoLevel /\ authority_level > g.current_chain_level THEN FALSE
    ELSE IF g.current_state \in {"DEFAULT", "CONVERSATION"} THEN TRUE
    ELSE authority_level <= 2

-----------------------------------------------------------------------------
(* voice_agent: the state transition and the authority gate *)

Max(a, b) == IF a >= b THEN a ELSE b

HasPending(g) == g.pending.command_id # None

\* _apply_state_transition without the branch of state.exit
ApplyStateTransitionNoExit(g, decision) ==
    IF decision.command_id = "state.confirm" /\ HasPending(g) /\
       g.pending.command_id \in {"state.enter_conversation", "state.enter_planning"}
    THEN [g |-> EnterState(ConfirmPending(g),
                           IF g.pending.command_id = "state.enter_conversation"
                           THEN "CONVERSATION" ELSE "PLANNING"),
          msg |-> IF g.pending.command_id = "state.enter_conversation"
                  THEN "Conversation mode engaged." ELSE "Planning mode locked."]
    ELSE IF decision.command_id = "state.confirm"
    THEN [g |-> ConfirmPending(g),
          msg |-> IF HasPending(g) THEN None ELSE "Nothing pending to confirm."]
    ELSE [g |-> g, msg |-> None]

\* _apply_state_transition leaving in place a pending that is no enter-mode command
ApplyStateTransitionKeepsOther(g, decision) ==
    IF decision.command_id = "state.confirm" THEN
        IF g.pending.command_id = "state.enter_conversation"
        THEN [g |-> [g EXCEPT !.current_state = "CONVERSATION",
                              !.pending = [command_id |-> None, authority_level |-> 0],
                              !.current_chain_level = 0],
              msg |-> "Conversation mode engaged."]
        ELSE IF g.pending.command_id = "state.enter_planning"
        THEN [g |-> [g EXCEPT !.current_state = "PLANNING",
                              !.pending = [command_id |-> None, authority_level |-> 0],
                              !.current_chain_level = 0],
              msg |-> "Planning mode locked."]
        ELSE [g |-> g, msg |-> IF g.pending.command_id # None THEN None
                               ELSE "Nothing pending to confirm."]
    ELSE IF decision.command_id = "state.exit"
    THEN [g |-> [g EXCEPT !.current_state = "DEFAULT",
                          !.pending = [command_id |-> None, authority_level |-> 0],
                          !.current_chain_level = 0],
          msg |-> "Returned to default state."]
    ELSE [g |-> g, msg |-> None]

\* _apply_state_transition entering CONVERSATION on the confirm of any pending
ApplyStateTransitionAnyPending(g, decision) ==
    IF decision.command_id = "state.confirm" /\ g.pending.command_id # None
    THEN [g |-> [g EXCEPT !.current_state = "CONVERSATION",
                          !.pending = [command_id |-> None, authority_level |-> 0],
                          !.current_chain_level = 0],
          msg |-> "Conversation mode engaged."]
    ELSE IF decision.command_id = "state.exit"
    THEN [g |-> [g EXCEPT !.current_state = "DEFAULT",
                          !.pending = [command_id |-> None, authority_level |-> 0],
                          !.current_chain_level = 0],
          msg |-> "Returned to default state."]
    ELSE [g |-> g, msg |-> IF decision.command_id = "state.confirm"
                           THEN "Nothing pending to confirm." ELSE None]

\* _apply_state_transition: the tracker afterwards and the message returned
ApplyStateTransition(g, decision) ==
    LET cmd == decision.command_id IN
    IF cmd = "state.confirm" THEN
        IF HasPending(g) THEN
            IF g.pending.command_id = "state.enter_conversation"
            THEN [g |-> EnterState(ConfirmPending(g), "CONVERSATION"),
                  msg |-> "Conversation mode engaged."]
            ELSE IF g.pending.command_id = "state.enter_planning"
            THEN [g |-> EnterState(ConfirmPending(g), "PLANNING"),
                  msg |-> "Planning mode locked."]
            ELSE [g |-> ConfirmPending(g), msg |-> None]
        ELSE [g |-> ConfirmPending(g), msg |-> "Nothing pending to confirm."]
    ELSE IF cmd = "state.exit"
    THEN [g |-> EnterState(g, "DEFAULT"), msg |-> "Returned to default state."]
    ELSE [g |-> g, msg |-> None]

\* decision.get("authority_level", 1)
CmdAuthority(decision) ==
    IF decision.authority_level = NoLevel THEN 1 ELSE decision.authority_level

PendingIsFor(g, decision) ==
    HasPending(g) /\ g.pending.command_id = decision.command_id

\* the test of the level-3 and level-4 branches: a pending for this command id exists
PendingMatches(g, decision) == PendingIsFor(g, decision)

Verdict(g, allowed, reason) == [g |-> g, allowed |-> allowed, reason |-> reason]

Level4SecondStepAllows(g, decision) ==
    IF ~PendingMatches(g, decision)
    THEN Verdict(StartPending(SetChainLevel(g, CmdAuthority(decision)), decision),
                 FALSE, "step 1 of 2")
    ELSE Verdict(g, TRUE, None)

\* _handle_authority, cmd_authority >= 4: both submissions are rejected
Level4(g, decision) ==
    IF ~PendingMatches(g, decision)
    THEN Verdict(StartPending(SetChainLevel(g, CmdAuthority(decision)), decision),
                 FALSE, "step 1 of 2")
    ELSE Verdict(StartPending(g, decision), FALSE, "step 2 of 2")

Level3AnyPendingAllows(g, decision) ==
    IF ~HasPending(g)
    THEN Verdict(StartPending(SetChainLevel(g, CmdAuthority(decision)), decision),
                 FALSE, "Confirm before running.")
    ELSE Verdict(g, TRUE, None)

\* the level-3 branch with the pending cleared once the command is allowed
Level3ClearsOnAllow(g, decision) ==
    IF ~PendingMatches(g, decision)
    THEN Verdict(StartPending(SetChainLevel(g, CmdAuthority(decision)), decision),
                 FALSE, "Confirm before running.")
    ELSE Verdict(ClearPending(g), TRUE, None)

\* _handle_authority, cmd_authority == 3: rejected once, allowed while the pending stays
Level3(g, decision) ==
    IF ~PendingMatches(g, decision)
    THEN Verdict(StartPending(SetChainLevel(g, CmdAuthority(decision)), decision),
                 FALSE, "Confirm before running.")
    ELSE Verdict(g, TRUE, None)

\* _handle_authority: the tracker afterwards, the verdict and its reason
HandleAuthority(g, decision) ==
    IF decision.type # "command" THEN Verdict(g, TRUE, None)
    ELSE
    LET cmd_authority == CmdAuthority(decision)
        g1 == SetChainLevel(g, Max(cmd_authority, g.current_chain_level))
    IN  IF ~IsCommandAllowed(g1, cmd_authority)
        THEN Verdict(g1, FALSE, "Commands are locked in the current state.")
        ELSE IF cmd_authority >= 4 THEN Level4(g1, decision)
        ELSE IF cmd_authority = 3 THEN Level3(g1, decision)
        ELSE IF cmd_authority = 2 THEN Verdict(RegisterLevel2(g1, decision), TRUE, None)
        ELSE Verdict(g1, TRUE, None)

COMMAND_HANDLERS ==
    {"memory.show_bucket", "memory.list_buckets", "memory.add_note",
     "memory.clear_bucket", "state.undo"}

\* run_validators: the placeholder validator always answers ok
RunValidators == <<"ok">>

ValidatorsBlock == \E i \in DOMAIN RunValidators : RunValidators[i] \in {"error", "escalate"}

\* on_user_input_transcribed on the tracker: capture_state_in, assert_state_unchanged,
\* then _apply_state_transition and, when that returns no message, _handle_authority.
\* path names the branch the handler leaves by.
HandlerOutcome(g, decision) ==
    LET g0 == AssertStateUnchanged(CaptureStateIn(g))
        t == ApplyStateTransition(g0, decision)
        a == HandleAuthority(t.g, decision)
    IN  IF ValidatorsBlock
        THEN [g |-> g0, at_gate |-> g0, path |-> "validator", msg |-> None,
              gated |-> FALSE, allowed |-> FALSE, reason |-> None]
        ELSE IF t.msg # None
        THEN [g |-> t.g, at_gate |-> t.g, path |-> "state", msg |-> t.msg,
              gated |-> FALSE, allowed |-> FALSE, reason |-> None]
        ELSE [g |-> a.g, at_gate |-> t.g,
              path |-> IF a.allowed THEN "task" ELSE IF a.reason # None THEN "rejected" ELSE "blocked",
              msg |-> None, gated |-> TRUE, allowed |-> a.allowed, reason |-> a.reason]


-----------------------------------------------------------------------------
(* TraceStore calls made by concurrent threads *)

NoLocals == [op |-> "none", conv |-> None, rows |-> <<>>]

TraceInit ==
    /\ rounds = <<>>
    /\ events = <<>>
    /\ lock = "free"
    /\ conv_locks = [c \in Convs |-> "absent"]
    /\ pc = [t \in Threads |-> "idle"]
    /\ tl = [t \in Threads |-> NoLocals]
    /\ exported = <<>>
    /\ ret_rounds = [c \in Convs |-> <<>>]
    /\ ret_events = [r \in RoundIds \cup {UnknownRound} |-> <<>>]
    /\ explicit_in = {}

Rows == Len(rounds) + Len(events)

KnownRounds == {r \in RoundIds : r <= Len(rounds)}

\* start_round(conv) up to the return of _get_conv_lock: under the global lock the
\* conversation's lock is created on demand, and the global lock is released again
GetConvLock(t, conv) ==
    /\ pc[t] = "idle"
    /\ Rows + Cardinality({u \in Threads : tl[u].op = "start_round"}) < MaxRows
    /\ lock = "free"
    /\ conv_locks' = [conv_locks EXCEPT ![conv] = IF @ = "absent" THEN "free" ELSE @]
    /\ pc' = [pc EXCEPT ![t] = "sr_conv"]
    /\ tl' = [tl EXCEPT ![t] = [op |-> "start_round", conv |-> conv, rows |-> <<>>]]
    /\ UNCHANGED <<rounds, events, lock, exported, ret_rounds, ret_events, explicit_in>>
    /\ UNCHANGED <<guard_vars, round_vars, unit_vars>>

\* with conv_lock, self._lock: the conversation lock is taken first
AcquireConvLock(t) ==
    /\ pc[t] = "sr_conv"
    /\ conv_locks[tl[t].conv] = "free"
    /\ conv_locks' = [conv_locks EXCEPT ![tl[t].conv] = t]
    /\ pc' = [pc EXCEPT ![t] = "sr_lock"]
    /\ UNCHANGED <<rounds, events, lock, tl, exported, ret_rounds, ret_events, explicit_in>>
    /\ UNCHANGED <<guard_vars, round_vars, unit_vars>>

\* ... then the global lock
AcquireLockStartRound(t) ==
    /\ pc[t] = "sr_lock"
    /\ lock = "free"
    /\ lock' = t
    /\ pc' = [pc EXCEPT ![t] = "sr_body"]
    /\ UNCHANGED <<rounds, events, conv_locks, tl, exported, ret_rounds, ret_events, explicit_in>>
    /\ UNCHANGED <<guard_vars, round_vars, unit_vars>>

\* the body of start_round with the conversation lock kept on return
StartRoundBodyKeepsConvLock(t) ==
    /\ pc[t] = "sr_body"
    /\ \E state_in \in {"DEFAULT"} :
         rounds' = InsertRound(rounds, tl[t].conv, state_in)
    /\ ret_rounds' = [ret_rounds EXCEPT ![tl[t].conv] =
                         Append(@, NextRoundSeq(rounds, tl[t].conv))]
    /\ lock' = "free"
    /\ pc' = [pc EXCEPT ![t] = "idle"]
    /\ tl' = [tl EXCEPT ![t] = NoLocals]
    /\ UNCHANGED <<events, exported, ret_events, explicit_in, conv_locks>>
    /\ UNCHANGED <<guard_vars, round_vars, unit_vars>>

\* the body of start_round: read the maximum, insert, commit, release both locks,
\* return the round_seq read
StartRoundBody(t) ==
    /\ pc[t] = "sr_body"
    /\ \E state_in \in {"DEFAULT"} :
         rounds' = InsertRound(rounds, tl[t].conv, state_in)
    /\ ret_rounds' = [ret_rounds EXCEPT ![tl[t].conv] =
                         Append(@, NextRoundSeq(rounds, tl[t].conv))]
    /\ lock' = "free"
    /\ conv_locks' = [conv_locks EXCEPT ![tl[t].conv] = "free"]
    /\ pc' = [pc EXCEPT ![t] = "idle"]
    /\ tl' = [tl EXCEPT ![t] = NoLocals]
    /\ UNCHANGED <<events, exported, ret_events, explicit_in>>
    /\ UNCHANGED <<guard_vars, round_vars, unit_vars>>

\* append_event for round id rid (known or not), event_seq given or not: the whole
\* region under the global lock
AppendEvent(t) ==
    /\ pc[t] = "idle"
    /\ lock = "free"
    /\ Rows + Cardinality({u \in Threads : tl[u].op = "start_round"}) < MaxRows
    /\ \E rid \in KnownRounds \cup {UnknownRound}, given \in ExplicitSeqs \cup {NoSeq} :
         /\ events' = InsertEvent(events, rid, given, "input.received", "ok")
         /\ ret_events' = IF given = NoSeq
                          THEN [ret_events EXCEPT ![rid] = Append(@, EventSeqFor(events, rid, given))]
                          ELSE ret_events
         /\ explicit_in' = IF given = NoSeq THEN explicit_in ELSE explicit_in \cup {rid}
    /\ UNCHANGED <<rounds, lock, conv_locks, pc, tl, exported, ret_rounds>>
    /\ UNCHANGED <<guard_vars, round_vars, unit_vars>>

\* mark_round: the UPDATE under the global lock
MarkRound(t) ==
    /\ pc[t] = "idle"
    /\ lock = "free"
    /\ \E rid \in KnownRounds \cup {UnknownRound}, m \in MarkInputs :
         rounds' = UpdateRound(rounds, rid, m)
    /\ UNCHANGED <<events, lock, conv_locks, pc, tl, exported, ret_rounds, ret_events, explicit_in>>
    /\ UNCHANGED <<guard_vars, round_vars, unit_vars>>

\* fetch_round / fetch_events: one SELECT under the global lock
Fetch(t) ==
    /\ pc[t] = "idle"
    /\ lock = "free"
    /\ UNCHANGED <<rounds, events, lock, conv_locks, pc, tl, exported,
                   ret_rounds, ret_events, explicit_in>>
    /\ UNCHANGED <<guard_vars, round_vars, unit_vars>>

\* export_jsonl: the global lock is taken, the file is opened for writing (truncated)
\* and the rounds are selected
ExportBegin(t) ==
    /\ pc[t] = "idle"
    /\ lock = "free"
    /\ lock' = t
    /\ \E rows \in ExportRows(rounds) :
         tl' = [tl EXCEPT ![t] = [op |-> "export", conv |-> None, rows |-> rows]]
    /\ exported' = <<>>
    /\ pc' = [pc EXCEPT ![t] = "export_rows"]
    /\ UNCHANGED <<rounds, events, conv_locks, ret_rounds, ret_events, explicit_in>>
    /\ UNCHANGED <<guard_vars, round_vars, unit_vars>>

\* export_jsonl, one iteration: the round line, then the lines of its events
ExportRound(t) ==
    /\ pc[t] = "export_rows"
    /\ tl[t].rows # <<>>
    /\ \E evs \in FetchEvents(events, Head(tl[t].rows).round_id) :
         exported' = exported \o <<RoundLine(Head(tl[t].rows))>> \o EventLines(evs)
    /\ tl' = [tl EXCEPT ![t].rows = Tail(@)]
    /\ UNCHANGED <<rounds, events, lock, conv_locks, pc, ret_rounds, ret_events, explicit_in>>
    /\ UNCHANGED <<guard_vars, round_vars, unit_vars>>

\* export_jsonl: the loop is over, the lock is released
ExportEnd(t) ==
    /\ pc[t] = "export_rows"
    /\ tl[t].rows = <<>>
    /\ lock' = "free"
    /\ pc' = [pc EXCEPT ![t] = "idle"]
    /\ tl' = [tl EXCEPT ![t] = NoLocals]
    /\ UNCHANGED <<rounds, events, conv_locks, exported, ret_rounds, ret_events, explicit_in>>
    /\ UNCHANGED <<guard_vars, round_vars, unit_vars>>

TraceNext ==
    \E t \in Threads :
        \/ \E c \in Convs : GetConvLock(t, c)
        \/ AcquireConvLock(t)
        \/ AcquireLockStartRound(t)
        \/ StartRoundBody(t)
        \/ AppendEvent(t)
        \/ MarkRound(t)
        \/ Fetch(t)
        \/ ExportBegin(t)
        \/ ExportRound(t)
        \/ ExportEnd(t)

-----------------------------------------------------------------------------
(* The tracker under the utterances of several conversations (SpecGuard) *)

MaxTasks == 1           \* state.undo tasks created and not yet run

NoOwner == [conv |-> None, subs |-> 0]

NoObs ==
    [kind |-> "none", conv |-> None, decision |-> ChatDecision, before |-> NewTracker,
     at_gate |-> NewTracker, owner_before |-> NoOwner, path |-> None, msg |-> None,
     gated |-> FALSE, allowed |-> FALSE, reason |-> None]

GuardInit ==
    /\ tracker = NewTracker
    /\ undo_tasks = 0
    /\ owner = NoOwner
    /\ obs = NoObs

\* history: who owns the pending after an utterance of conv
OwnerAfter(o, conv, out) ==
    [conv |-> IF ~HasPending(out.g) THEN None
              ELSE IF out.reason \in {"step 1 of 2", "step 2 of 2", "Confirm before running."}
                   THEN conv ELSE o.conv,
     subs |-> IF ~HasPending(out.g) THEN 0
              ELSE IF out.reason = "step 2 of 2" THEN (IF o.subs >= 2 THEN 2 ELSE o.subs + 1)
              ELSE IF out.reason \in {"step 1 of 2", "Confirm before running."} THEN 1
              ELSE o.subs]

SpawnsUndo(decision, out) ==
    out.path = "task" /\ ~decision.has_conflicts /\ decision.command_id = "state.undo"

\* an utterance of conversation conv that decide_route answers with decision is handled
GuardUtterance(conv, decision) ==
    \E out \in {HandlerOutcome(tracker, decision)} :
        /\ SpawnsUndo(decision, out) => undo_tasks < MaxTasks
        /\ tracker' = out.g
        /\ undo_tasks' = IF SpawnsUndo(decision, out) THEN undo_tasks + 1 ELSE undo_tasks
        /\ owner' = OwnerAfter(owner, conv, out)
        /\ obs' = [kind |-> "utterance", conv |-> conv, decision |-> decision,
                   before |-> tracker, at_gate |-> out.at_gate, owner_before |-> owner,
                   path |-> out.path, msg |-> out.msg, gated |-> out.gated,
                   allowed |-> out.allowed, reason |-> out.reason]
        /\ UNCHANGED <<trace_vars, round_vars, unit_vars>>

\* the task of a state.undo utterance runs _execute_command: _state_undo
GuardUndoTask ==
    /\ undo_tasks > 0
    /\ undo_tasks' = undo_tasks - 1
    /\ tracker' = UndoLast(tracker)
    /\ obs' = [NoObs EXCEPT !.kind = "undo", !.before = tracker, !.owner_before = owner]
    /\ UNCHANGED <<owner, trace_vars, round_vars, unit_vars>>

\* on_session_close of the session of conversation conv
GuardSessionClose(conv) ==
    /\ tracker' = ClearPending(tracker)
    /\ owner' = [owner EXCEPT !.conv = None, !.subs = 0]
    /\ obs' = [NoObs EXCEPT !.kind = "close", !.conv = conv, !.before = tracker,
                            !.owner_before = owner]
    /\ UNCHANGED <<undo_tasks, trace_vars, round_vars, unit_vars>>

GuardNext ==
    \/ \E conv \in Convs, decision \in Decisions : GuardUtterance(conv, decision)
    \/ GuardUndoTask
    \/ \E conv \in Convs : GuardSessionClose(conv)

-----------------------------------------------------------------------------
(* MemoryStore: the tables entries, buckets, memory_items and context_cache *)

MAX_REGISTER_LEN == 140

REGISTER_LIMIT == 4     \* _build_register(limit=4)

PIN_BONUS == 1000000    \* base += 1e6

\* a text is a sequence of one-character strings
Text(n, ch) == [i \in 1..n |-> ch]

SpeakerUser == <<"u", "s", "e", "r">>

SpeakerAssistant == <<"a", "s", "s", "i", "s", "t", "a", "n", "t">>

SpeakerNote == <<"n", "o", "t", "e">>

\* "(reply sent)"
ReplySent == <<"(", "r", "e", "p", "l", "y", " ", "s", "e", "n", "t", ")">>

\* the return value None of get_summary
NoSummary == <<None>>

\* make_bucket_id
MakeBucketId(conv) == <<"bucket", conv>>

\* decision.get("topic") or "general"
TopicBucket(decision) == IF decision.topic # None THEN <<decision.topic>> ELSE <<"general">>

\* the tables after _setup on a new database; next_item_id is the AUTOINCREMENT
\* counter of memory_items
NewMemory ==
    [entries |-> <<>>, buckets |-> {}, memory_items |-> <<>>, next_item_id |-> 1,
     context_cache |-> {}]

\* SELECT ... WHERE bucket_id = ?, in the order of the row ids
RowsOf(table, bucket_id) == SelectSeq(table, LAMBDA row : row.bucket_id = bucket_id)

\* f"[{row['speaker']}] {row['content']}"
RegisterPart(row) == <<"[">> \o row.speaker \o <<"]", " ">> \o row.content

\* " ".join(parts)
RECURSIVE JoinParts(_)
JoinParts(parts) ==
    IF Len(parts) = 0 THEN <<>>
    ELSE IF Len(parts) = 1 THEN parts[1]
    ELSE parts[1] \o <<" ">> \o JoinParts(Tail(parts))

\* _build_register without the cut
CapRegisterNever(summary) == summary

\* _build_register: the cut of a summary longer than MAX_REGISTER_LEN
CapRegister(summary) ==
    IF Len(summary) > MAX_REGISTER_LEN
    THEN SubSeq(summary, 1, MAX_REGISTER_LEN - 3) \o <<".", ".", ".">>
    ELSE summary

\* ORDER BY id DESC LIMIT ?, reversed: the last rows of the bucket, oldest first
LastRows(m, bucket_id) ==
    LET rows == RowsOf(m.entries, bucket_id)
    IN  SubSeq(rows, Max(1, Len(rows) - REGISTER_LIMIT + 1), Len(rows))

\* the register before the cut
FullRegister(m, bucket_id) ==
    LET rows == LastRows(m, bucket_id)
    IN  JoinParts([i \in DOMAIN rows |-> RegisterPart(rows[i])])

\* _build_register
BuildRegister(m, bucket_id) == CapRegister(FullRegister(m, bucket_id))

\* recency_score: time is counted in units of 1/decay seconds, so that the score is
\* max(0, 1 - max(0, now - recency))
RecencyScore(row, t) == Max(0, 1 - Max(0, t - row.recency))

\* _compute_ranked_items: the score of a row
ItemScore(row, t) ==
    row.reference_score + RecencyScore(row, t) + (IF row.pinned THEN PIN_BONUS ELSE 0)

\* _compute_ranked_items: the entry of the list for a row
RankedItem(row, t) ==
    [item_id |-> row.item_id, pinned |-> row.pinned, score |-> ItemScore(row, t),
     content |-> row.content]

\* the place of item in a list sorted by descending score: behind the items that
\* score at least as much
RECURSIVE InsertRanked(_, _)
InsertRanked(ranked, item) ==
    IF ranked = <<>> THEN <<item>>
    ELSE IF Head(ranked).score >= item.score
         THEN <<Head(ranked)>> \o InsertRanked(Tail(ranked), item)
         ELSE <<item>> \o ranked

\* ranked.sort(key=lambda r: r[0], reverse=True) on the first n rows: the sort is
\* stable, rows of equal score keep the order of the table
RECURSIVE SortRanked(_, _, _)
SortRanked(rows, t, n) ==
    IF n = 0 THEN <<>>
    ELSE InsertRanked(SortRanked(rows, t, n - 1), RankedItem(rows[n], t))

\* _compute_ranked_items: the rows of the bucket by descending score
ComputeRankedItems(m, bucket_id, t) ==
    LET rows == RowsOf(m.memory_items, bucket_id)
    IN  SortRanked(rows, t, Len(rows))

SHORT_LIMIT == 3        \* _format_items(items, limit=3)

LONG_LIMIT == 10        \* _format_items(items, limit=10)

PinTag == <<"[", "P", "I", "N", "]">>

NewLine == "\n"

\* f"{tag}{item['content']}"
FormatPart(item) == (IF item.pinned THEN PinTag ELSE <<>>) \o item.content

\* _format_items without the limit
FormatItemsAll(items, limit) ==
    LET step[k \in 0..Len(items)] ==
            IF k = 0 THEN <<>>
            ELSE IF k = 1 THEN FormatPart(items[1])
            ELSE step[k - 1] \o <<NewLine>> \o FormatPart(items[k])
    IN  step[Len(items)]

\* _format_items: "\n".join of the parts of list(items)[:limit]
FormatItems(items, limit) ==
    LET shown == SubSeq(items, 1, IF Len(items) < limit THEN Len(items) ELSE limit)
        step[k \in 0..Len(shown)] ==
            IF k = 0 THEN <<>>
            ELSE IF k = 1 THEN FormatPart(shown[1])
            ELSE step[k - 1] \o <<NewLine>> \o FormatPart(shown[k])
    IN  step[Len(shown)]

\* _update_context_cache: INSERT OR REPLACE INTO context_cache
UpdateContextCache(m, bucket_id, register, t) ==
    LET items == ComputeRankedItems(m, bucket_id, t)
    IN  [m EXCEPT !.context_cache =
            {c \in @ : c.bucket_id # bucket_id}
            \cup {[bucket_id |-> bucket_id, register_summary |-> register,
                   short_context |-> FormatItems(items, SHORT_LIMIT),
                   long_context |-> FormatItems(items, LONG_LIMIT),
                   items |-> items]}]

\* record_turn
RecordTurn(m, bucket_id, speaker, content, t) ==
    LET m1 == [m EXCEPT !.entries =
                   Append(@, [bucket_id |-> bucket_id, speaker |-> speaker, content |-> content])]
        register == BuildRegister(m1, bucket_id)
        m2 == [m1 EXCEPT !.buckets =
                   {b \in @ : b.id # bucket_id} \cup {[id |-> bucket_id, summary |-> register]}]
    IN  UpdateContextCache(m2, bucket_id, register, t)

\* get_summary
GetSummary(m, bucket_id) ==
    IF \E b \in m.buckets : b.id = bucket_id
    THEN (CHOOSE b \in m.buckets : b.id = bucket_id).summary
    ELSE NoSummary

\* append_note
AppendNote(m, bucket_id, note, t) == RecordTurn(m, bucket_id, SpeakerNote, note, t)

KeepsRow(row, bucket_id) == row.bucket_id # bucket_id

\* clear_bucket without the DELETE FROM context_cache
ClearBucketKeepsCache(m, bucket_id) ==
    [m EXCEPT !.entries = SelectSeq(@, LAMBDA row : KeepsRow(row, bucket_id)),
              !.buckets = {b \in @ : b.id # bucket_id},
              !.memory_items = SelectSeq(@, LAMBDA row : KeepsRow(row, bucket_id))]

\* clear_bucket: DELETE FROM entries, buckets, memory_items, context_cache
ClearBucket(m, bucket_id) ==
    [m EXCEPT !.entries = SelectSeq(@, LAMBDA row : KeepsRow(row, bucket_id)),
              !.buckets = {b \in @ : b.id # bucket_id},
              !.memory_items = SelectSeq(@, LAMBDA row : KeepsRow(row, bucket_id)),
              !.context_cache = {c \in @ : KeepsRow(c, bucket_id)}]

\* add_memory_item: the tables after the call; the returned id is m.next_item_id
AddMemoryItem(m, bucket_id, content, pinned, reference_score, t) ==
    LET m1 == [m EXCEPT !.memory_items =
                   Append(@, [item_id |-> m.next_item_id, bucket_id |-> bucket_id,
                              pinned |-> pinned, reference_score |-> reference_score,
                              recency |-> t, content |-> content]),
                        !.next_item_id = @ + 1]
    IN  UpdateContextCache(m1, bucket_id, BuildRegister(m1, bucket_id), t)

\* the value None of the argument pinned of update_reference
KeepPinned == "keep"

\* update_reference: UPDATE memory_items ... WHERE bucket_id = ? AND item_id = ?
UpdateReference(m, bucket_id, item_id, delta, pinned, t) ==
    LET upd(row) ==
            IF row.bucket_id = bucket_id /\ row.item_id = item_id
            THEN [row EXCEPT !.reference_score = @ + delta, !.recency = t,
                             !.pinned = IF pinned = KeepPinned THEN @ ELSE pinned = "true"]
            ELSE row
        m1 == [m EXCEPT !.memory_items = [i \in DOMAIN @ |-> upd(@[i])]]
    IN  UpdateContextCache(m1, bucket_id, BuildRegister(m1, bucket_id), t)

HasCache(m, bucket_id) == \E c \in m.context_cache : c.bucket_id = bucket_id

\* get_context_package: the tables after the call (the cache is built when no row
\* is found) and the returned package
GetContextPackage(m, bucket_id, t) ==
    LET m1 == IF HasCache(m, bucket_id) THEN m
              ELSE UpdateContextCache(m, bucket_id, BuildRegister(m, bucket_id), t)
        row == CHOOSE c \in m1.context_cache : c.bucket_id = bucket_id
    IN  [m |-> m1, register_summary |-> row.register_summary, items |-> row.items]

-----------------------------------------------------------------------------
(* The rounds of the orchestrator on its event loop (SpecRound) *)

MaxRounds == 2          \* utterances handled

LLM_RETRY_LIMIT == 2

TRACE_ENABLED == TRUE

Ev(type) == [type |-> type, status |-> "ok"]

EvFailed(type) == [type |-> type, status |-> "failed"]

\* trace_store.append_event / _log_event, once per element of evs, no event_seq given
RECURSIVE LogEvents(_, _, _)
LogEvents(es, rid, evs) ==
    IF evs = <<>> \/ ~TRACE_ENABLED THEN es
    ELSE LogEvents(InsertEvent(es, rid, NoSeq, Head(evs).type, Head(evs).status), rid, Tail(evs))

\* the event_seq values those calls returned
Returned(es, es2) == [i \in 1..(Len(es2) - Len(es)) |-> es2[Len(es) + i].event_seq]

Mark(status, state_out, failure_code, failure_reason) ==
    [status |-> status, state_out |-> state_out,
     failure_code |-> failure_code, failure_reason |-> failure_reason]

NoMark == Mark(None, None, None, None)

\* trace_store.mark_round, when the path calls it
MarkIf(rs, rid, m) == IF m = NoMark THEN rs ELSE UpdateRound(rs, rid, m)

\* the events _apply_state_transition logs
TransitionEvents(decision) ==
    IF decision.command_id = "state.confirm" THEN <<Ev("confirm.received")>> ELSE <<>>

\* the events _handle_authority logs
GateEvents(out) ==
    IF out.reason \in {"step 1 of 2", "step 2 of 2", "Confirm before running."}
    THEN <<Ev("confirm.requested")>> ELSE <<>>

ValidatorEvents == [i \in DOMAIN RunValidators |-> Ev("validator.ran")]

\* the events on_user_input_transcribed appends on the path out.path
HandlerEvents(decision, out) ==
    <<Ev("input.received"), Ev("input.normalized")>> \o ValidatorEvents \o
    (IF out.path = "validator" THEN <<Ev("output.emitted")>>
     ELSE <<Ev("route.selected")>> \o TransitionEvents(decision) \o
          (IF out.path = "state" THEN <<Ev("output.emitted")>>
           ELSE GateEvents(out) \o
                (IF out.path = "rejected" THEN <<Ev("output.emitted")>>
                 ELSE IF out.path = "blocked" THEN <<EvFailed("round.failed")>>
                 ELSE <<>>)))

\* the mark_round call of on_user_input_transcribed on the path out.path
HandlerMark(out) ==
    IF out.path = "validator"
    THEN Mark("failed", StateOut(out.g), "validator.blocked", "message")
    ELSE IF out.path = "state" THEN Mark("ok", StateOut(out.g), None, None)
    ELSE IF out.path = "blocked" THEN Mark("failed", StateOut(out.g), "auth.blocked", "blocked")
    ELSE NoMark

\* the texts of a round: the scrubbed transcript, the message of a state transition
\* and the reply of a command handler
Scrubbed == <<"h", "i">>

StateMessage == <<"o", "k">>

HandlerReply == <<"d", "o", "n", "e">>

\* the record_turn calls of on_user_input_transcribed
HandlerTurns(m, conv, out, t) ==
    IF out.path = "validator" THEN m
    ELSE IF out.path = "state"
         THEN RecordTurn(RecordTurn(m, MakeBucketId(conv), SpeakerUser, Scrubbed, t),
                         MakeBucketId(conv), SpeakerAssistant, StateMessage, t)
    ELSE RecordTurn(m, MakeBucketId(conv), SpeakerUser, Scrubbed, t)

NewTask(rid) == [round_id |-> rid, pc |-> "created", attempt |-> 0]

\* no get_context_package call is under way
NoReader == [pc |-> "idle", bucket_id |-> <<>>, rebuilds |-> 0, returned |-> FALSE]

RoundInit ==
    /\ tasks = {}
    /\ served = <<>>
    /\ ran = {}
    /\ memory = NewMemory
    /\ raised = {}
    /\ reader = NoReader

\* on_user_input_transcribed for an utterance of conversation conv that decide_route
\* answers with decision: one callback of the event loop, run to its return
OnUserInputTranscribed(conv, decision) ==
    /\ Len(rounds) < MaxRounds
    /\ \E out \in {HandlerOutcome(tracker, decision)} :
       \E rid \in {NewRoundId(rounds)} :
       \E es2 \in {LogEvents(events, rid, HandlerEvents(decision, out))} :
         /\ rounds' = MarkIf(InsertRound(rounds, conv, StateOut(tracker)), rid, HandlerMark(out))
         /\ ret_rounds' = [ret_rounds EXCEPT ![conv] = Append(@, NextRoundSeq(rounds, conv))]
         /\ events' = es2
         /\ ret_events' = [ret_events EXCEPT ![rid] = @ \o Returned(events, es2)]
         /\ tracker' = out.g
         /\ memory' = HandlerTurns(memory, conv, out, now)
         /\ served' = Append(served, decision)
         /\ tasks' = IF out.path = "task" THEN tasks \cup {NewTask(rid)} ELSE tasks
    /\ conv_locks' = [conv_locks EXCEPT ![conv] = "free"]
    /\ UNCHANGED <<lock, pc, tl, exported, explicit_in, undo_tasks, owner, obs, unit_vars, ran,
                   raised, reader>>

ConvOf(rid) == rounds[rid].conversation_id

\* _process_decision without the test of the conflict list
ProcessBranchNoConflictTest(decision) ==
    IF decision.type = "command" /\ decision.command_id \in COMMAND_HANDLERS THEN "execute"
    ELSE "respond"

\* _process_decision: the branch taken
ProcessBranch(decision) ==
    IF decision.has_conflicts THEN "clarify"
    ELSE IF decision.type = "command" /\ decision.command_id \in COMMAND_HANDLERS THEN "execute"
    ELSE "respond"

\* a step of a task that appends evs to its round
TaskLogs(k, evs) ==
    \E es2 \in {LogEvents(events, k.round_id, evs)} :
        /\ events' = es2
        /\ ret_events' = [ret_events EXCEPT ![k.round_id] = @ \o Returned(events, es2)]

\* _process_decision with a conflict list: _ask_for_clarification, end of the task
TaskClarify(k) ==
    /\ k.pc = "created"
    /\ ProcessBranch(served[k.round_id]) = "clarify"
    /\ TaskLogs(k, <<Ev("confirm.requested"), Ev("output.emitted")>>)
    /\ tasks' = tasks \ {k}
    /\ UNCHANGED <<rounds, lock, conv_locks, pc, tl, exported, ret_rounds, explicit_in,
                   guard_vars, unit_vars, raised, reader, served, ran, memory>>

\* the handler of COMMAND_HANDLERS on the tracker
HandlerOnTracker(g, command_id) == IF command_id = "state.undo" THEN UndoLast(g) ELSE g

\* the handler of COMMAND_HANDLERS on the memory store
HandlerOnMemory(m, decision, t) ==
    IF decision.command_id = "memory.add_note" THEN AppendNote(m, TopicBucket(decision), Scrubbed, t)
    ELSE IF decision.command_id = "memory.clear_bucket" THEN ClearBucket(m, TopicBucket(decision))
    ELSE m

\* _execute_command up to its await: the handler runs, two events are logged
TaskExecute(k) ==
    /\ k.pc = "created"
    /\ ProcessBranch(served[k.round_id]) = "execute"
    /\ tracker' = HandlerOnTracker(tracker, served[k.round_id].command_id)
    /\ memory' = HandlerOnMemory(memory, served[k.round_id], now)
    /\ ran' = ran \cup {[round_id |-> k.round_id, command_id |-> served[k.round_id].command_id]}
    /\ TaskLogs(k, <<Ev("command.executed"), Ev("output.emitted")>>)
    /\ tasks' = (tasks \ {k}) \cup {[k EXCEPT !.pc = "exec_wait"]}
    /\ UNCHANGED <<rounds, lock, conv_locks, pc, tl, exported, ret_rounds, explicit_in,
                   undo_tasks, owner, obs, unit_vars, raised, reader, served>>

\* _execute_command after generate_reply: record_turn and mark_round, unless the
\* reply raised and ended the task
TaskExecuteDone(k) ==
    /\ k.pc = "exec_wait"
    /\ \E reply_ok \in BOOLEAN :
         IF reply_ok
         THEN /\ memory' = RecordTurn(memory, MakeBucketId(ConvOf(k.round_id)), SpeakerAssistant,
                                       HandlerReply, now)
              /\ rounds' = UpdateRound(rounds, k.round_id, Mark("ok", StateOut(tracker), None, None))
         ELSE UNCHANGED <<memory, rounds>>
    /\ tasks' = tasks \ {k}
    /\ UNCHANGED <<events, lock, conv_locks, pc, tl, exported, ret_rounds, ret_events,
                   explicit_in, guard_vars, unit_vars, raised, reader, served, ran>>

\* _respond_with_prompt up to the await of the first attempt
TaskRespond(k) ==
    /\ k.pc = "created"
    /\ ProcessBranch(served[k.round_id]) = "respond"
    /\ LLM_RETRY_LIMIT >= 1
    /\ TaskLogs(k, <<Ev("llm.request")>>)
    /\ tasks' = (tasks \ {k}) \cup {[k EXCEPT !.pc = "llm_wait", !.attempt = 1]}
    /\ UNCHANGED <<rounds, lock, conv_locks, pc, tl, exported, ret_rounds, explicit_in,
                   guard_vars, unit_vars, raised, reader, served, ran, memory>>

\* generate_reply returned: response logged, turn recorded, round marked ok
TaskReplied(k) ==
    /\ k.pc = "llm_wait"
    /\ TaskLogs(k, <<Ev("llm.response"), Ev("output.emitted")>>)
    /\ memory' = RecordTurn(memory, MakeBucketId(ConvOf(k.round_id)), SpeakerAssistant, ReplySent, now)
    /\ rounds' = UpdateRound(rounds, k.round_id, Mark("ok", StateOut(tracker), None, None))
    /\ tasks' = tasks \ {k}
    /\ UNCHANGED <<lock, conv_locks, pc, tl, exported, ret_rounds, explicit_in,
                   guard_vars, unit_vars, raised, reader, served, ran>>

\* generate_reply raised and attempts are left: the next attempt is logged
TaskRetry(k) ==
    /\ k.pc = "llm_wait"
    /\ k.attempt < LLM_RETRY_LIMIT
    /\ TaskLogs(k, <<EvFailed("llm.response"), Ev("llm.request")>>)
    /\ tasks' = (tasks \ {k}) \cup {[k EXCEPT !.attempt = @ + 1]}
    /\ UNCHANGED <<rounds, lock, conv_locks, pc, tl, exported, ret_rounds, explicit_in,
                   guard_vars, unit_vars, raised, reader, served, ran, memory>>

\* the last attempt raised and the round is marked ok all the same
TaskGiveUpMarksOk(k) ==
    /\ k.pc = "llm_wait"
    /\ k.attempt >= LLM_RETRY_LIMIT
    /\ TaskLogs(k, <<EvFailed("llm.response"), Ev("output.emitted")>>)
    /\ rounds' = UpdateRound(rounds, k.round_id, Mark("ok", StateOut(tracker), None, None))
    /\ tasks' = tasks \ {k}
    /\ UNCHANGED <<lock, conv_locks, pc, tl, exported, ret_rounds, explicit_in,
                   guard_vars, unit_vars, raised, reader, served, ran, memory>>

\* generate_reply raised on the last attempt: the round is marked failed
TaskGiveUp(k) ==
    /\ k.pc = "llm_wait"
    /\ k.attempt >= LLM_RETRY_LIMIT
    /\ TaskLogs(k, <<EvFailed("llm.response"), Ev("output.emitted")>>)
    /\ rounds' = UpdateRound(rounds, k.round_id, Mark("failed", StateOut(tracker), "llm.failed", "error"))
    /\ tasks' = tasks \ {k}
    /\ UNCHANGED <<lock, conv_locks, pc, tl, exported, ret_rounds, explicit_in,
                   guard_vars, unit_vars, raised, reader, served, ran, memory>>

\* on_session_close
OnSessionClose ==
    /\ tracker' = ClearPending(tracker)
    /\ UNCHANGED <<trace_vars, undo_tasks, owner, obs, unit_vars, round_vars>>

RoundNext ==
    \/ \E conv \in Convs, decision \in Decisions : OnUserInputTranscribed(conv, decision)
    \/ \E k \in tasks : TaskClarify(k)
    \/ \E k \in tasks : TaskExecute(k)
    \/ \E k \in tasks : TaskExecuteDone(k)
    \/ \E k \in tasks : TaskRespond(k)
    \/ \E k \in tasks : TaskReplied(k)
    \/ \E k \in tasks : TaskRetry(k)
    \/ \E k \in tasks : TaskGiveUp(k)
    \/ OnSessionClose

\* the append_event calls on_user_input_transcribed makes itself, outside _log_event
DirectAppends ==
    {"input.received", "input.normalized", "validator.ran", "route.selected",
     "output.emitted", "round.failed"}

\* the handler reaches the direct call that appends an event of type point
ReachesAppend(out, point) ==
    IF point = "output.emitted" THEN out.path = "state"
    ELSE IF point = "round.failed" THEN out.path = "blocked"
    ELSE IF point = "route.selected" THEN out.path # "validator"
    ELSE TRUE

\* the events appended before the first direct call of type point
RECURSIVE EventsBefore(_, _)
EventsBefore(evs, point) ==
    IF evs = <<>> \/ Head(evs).type = point THEN <<>>
    ELSE <<Head(evs)>> \o EventsBefore(Tail(evs), point)

\* the call is made after record_turn of the user's turn and _apply_state_transition
AfterRouting(point) == point \in {"output.emitted", "round.failed"}

\* the decision of a round whose handler ended before it used one
NoDecision == [ChatDecision EXCEPT !.type = None]

\* on_user_input_transcribed when the direct append_event call of type point raises:
\* the exception leaves the handler, nothing after the call runs
OnUserInputAppendRaises(conv, decision) ==
    /\ Len(rounds) < MaxRounds
    /\ \E out \in {HandlerOutcome(tracker, decision)} :
       \E rid \in {NewRoundId(rounds)} :
       \E point \in {p \in DirectAppends : ReachesAppend(out, p)} :
       \E es2 \in {LogEvents(events, rid, EventsBefore(HandlerEvents(decision, out), point))} :
         /\ rounds' = InsertRound(rounds, conv, StateOut(tracker))
         /\ ret_rounds' = [ret_rounds EXCEPT ![conv] = Append(@, NextRoundSeq(rounds, conv))]
         /\ events' = es2
         /\ ret_events' = [ret_events EXCEPT ![rid] = @ \o Returned(events, es2)]
         /\ tracker' = IF AfterRouting(point) THEN out.g
                       ELSE AssertStateUnchanged(CaptureStateIn(tracker))
         /\ memory' = IF AfterRouting(point)
                      THEN RecordTurn(memory, MakeBucketId(conv), SpeakerUser, Scrubbed, now)
                      ELSE memory
         /\ served' = Append(served, IF AfterRouting(point) THEN decision ELSE NoDecision)
         /\ raised' = raised \cup {rid}
    /\ conv_locks' = [conv_locks EXCEPT ![conv] = "free"]
    /\ UNCHANGED <<lock, pc, tl, exported, explicit_in, undo_tasks, owner, obs, unit_vars, ran,
                   tasks, reader>>

FaultNext ==
    \/ RoundNext
    \/ \E conv \in Convs, decision \in Decisions : OnUserInputAppendRaises(conv, decision)

NoRoute == [phase |-> "idle", transcript |-> <<>>, matched |-> {}, decision |-> ChatDecision]

NoCall ==
    [op |-> "none", after_confirm |-> FALSE, before |-> NewTracker, ret |-> NoPending,
     msg |-> None, cmd |-> None, ok |-> FALSE, level |-> NoLevel]

NoMemCall ==
    [op |-> "none", bucket_id |-> <<>>, item_id |-> 0, summary |-> NoSummary,
     register_summary |-> <<>>, items |-> <<>>, cleared |-> {}, emptied |-> {}]

NoStoreCall ==
    [op |-> "none", round_id |-> UnknownRound, mark |-> NoMark,
     rounds_before |-> <<>>, events_before |-> <<>>, ret_round |-> <<>>, ret_events |-> <<>>,
     last_mark |-> [r \in RoundIds |-> NoMark], supplied |-> [r \in RoundIds |-> None]]

UnitInit ==
    route = NoRoute /\ tcall = NoCall /\ now = 0 /\ mcall = NoMemCall /\ scall = NoStoreCall

Init == TraceInit /\ GuardInit /\ RoundInit /\ UnitInit

SpecRound == Init /\ [][RoundNext]_vars

SpecFault == Init /\ [][FaultNext]_vars

SpecGuard == Init /\ [][GuardNext]_vars

SpecTrace == Init /\ [][TraceNext]_vars

\* a thread inside a call keeps running, and a thread waiting for a lock gets it when
\* the lock is released again and again
TraceFairness ==
    \A t \in Threads :
        /\ SF_vars(AcquireConvLock(t))
        /\ SF_vars(AcquireLockStartRound(t))
        /\ WF_vars(StartRoundBody(t))
        /\ WF_vars(ExportRound(t))
        /\ WF_vars(ExportEnd(t))

SpecTraceLive == Init /\ [][TraceNext]_vars /\ TraceFairness

-----------------------------------------------------------------------------
(* One call of decide_route (SpecRouter) *)

\* decide_route is called with a transcript
RouteCall ==
    /\ route.phase = "idle"
    /\ \E transcript \in Transcripts, matched \in Utterances :
         route' = [route EXCEPT !.phase = "called", !.transcript = transcript,
                                !.matched = matched]
    /\ UNCHANGED <<trace_vars, guard_vars, round_vars, tcall, now, mcall, scall>>

\* decide_route returns its decision
RouteReturn ==
    /\ route.phase = "called"
    /\ route' = [route EXCEPT !.phase = "returned",
                              !.decision = DecideRouteOf(route.transcript, route.matched)]
    /\ UNCHANGED <<trace_vars, guard_vars, round_vars, tcall, now, mcall, scall>>

RouterNext ==
    \/ RouteCall
    \/ RouteReturn

SpecRouter == Init /\ [][RouterNext]_vars

-----------------------------------------------------------------------------
(* The StateTracker methods and _apply_state_transition, called in any order
   (SpecTracker) *)

GuardStates == {"DEFAULT", "CONVERSATION", "ACTION", "RESEARCH", "PLANNING", "COMMAND_LOCK"}

\* decisions handed to start_pending
PendingDecisions ==
    {dd \in Decisions : dd.command_id \in {"state.enter_conversation", "state.enter_planning"}}

\* decisions handed to register_level2
Level2Decisions == {dd \in Decisions : dd.command_id = "job.create" /\ ~dd.has_conflicts}

\* decisions handed to _apply_state_transition
TransitionDecisions ==
    {dd \in Decisions : dd.command_id \in {"state.confirm", "state.exit", "ops.status"}}

ChainLevels == {NoLevel, 2, 4}

\* the last call consumed the pending slot
WasConfirm ==
    \/ tcall.op = "confirm_pending"
    \/ tcall.op = "apply_state_transition" /\ tcall.cmd = "state.confirm"

\* the record of a call op that found the tracker as it is and returned ret
Called(op, ret) ==
    [NoCall EXCEPT !.op = op, !.after_confirm = WasConfirm, !.before = tracker, !.ret = ret]

TrackerFrame ==
    UNCHANGED <<trace_vars, undo_tasks, owner, obs, round_vars, route, now, mcall, scall>>

CallEnterState(target) ==
    /\ tracker' = EnterState(tracker, target)
    /\ tcall' = [Called("enter_state", NoPending) EXCEPT !.cmd = target]
    /\ TrackerFrame

CallCaptureStateIn ==
    /\ tracker' = CaptureStateIn(tracker)
    /\ tcall' = Called("capture_state_in", NoPending)
    /\ TrackerFrame

CallAssertStateUnchanged ==
    /\ tracker' = AssertStateUnchanged(tracker)
    /\ tcall' = Called("assert_state_unchanged", NoPending)
    /\ TrackerFrame

CallStartPending(decision) ==
    /\ tracker' = StartPending(tracker, decision)
    /\ tcall' = Called("start_pending", NoPending)
    /\ TrackerFrame

\* confirm_pending returns the pending it found
CallConfirmPending ==
    /\ tracker' = ConfirmPending(tracker)
    /\ tcall' = Called("confirm_pending", tracker.pending)
    /\ TrackerFrame

CallClearPending ==
    /\ tracker' = ClearPending(tracker)
    /\ tcall' = Called("clear_pending", NoPending)
    /\ TrackerFrame

CallRegisterLevel2(decision) ==
    /\ tracker' = RegisterLevel2(tracker, decision)
    /\ tcall' = Called("register_level2", NoPending)
    /\ TrackerFrame

\* undo_last returns the command id of the entry it found
CallUndoLast ==
    /\ tracker' = UndoLast(tracker)
    /\ tcall' = Called("undo_last", tracker.last_level2)
    /\ TrackerFrame

CallSetChainLevel(level) ==
    /\ tracker' = SetChainLevel(tracker, level)
    /\ tcall' = Called("set_chain_level", NoPending)
    /\ TrackerFrame

CallIsCommandAllowed(level) ==
    /\ tracker' = tracker
    /\ tcall' = [Called("is_command_allowed", NoPending) EXCEPT
                    !.ok = IsCommandAllowed(tracker, level)]
    /\ TrackerFrame

CallApplyStateTransition(decision) ==
    /\ tracker' = ApplyStateTransition(tracker, decision).g
    /\ tcall' = [Called("apply_state_transition", tracker.pending) EXCEPT
                    !.cmd = decision.command_id,
                    !.msg = ApplyStateTransition(tracker, decision).msg]
    /\ TrackerFrame

\* decisions handed to _handle_authority
GateDecisions == {dd \in Decisions : dd.type = "command"}

\* _handle_authority answers (ok, msg) for a command of authority level level
CallHandleAuthority(decision) ==
    /\ tracker' = HandleAuthority(tracker, decision).g
    /\ tcall' = [Called("handle_authority", NoPending) EXCEPT
                    !.cmd = decision.command_id,
                    !.level = CmdAuthority(decision),
                    !.ok = HandleAuthority(tracker, decision).allowed,
                    !.msg = HandleAuthority(tracker, decision).reason]
    /\ TrackerFrame

TrackerNext ==
    \/ \E target \in GuardStates : CallEnterState(target)
    \/ CallCaptureStateIn
    \/ CallAssertStateUnchanged
    \/ \E decision \in PendingDecisions : CallStartPending(decision)
    \/ CallConfirmPending
    \/ CallClearPending
    \/ \E decision \in Level2Decisions : CallRegisterLevel2(decision)
    \/ CallUndoLast
    \/ \E level \in ChainLevels : CallSetChainLevel(level)
    \/ \E level \in 1..4 : CallIsCommandAllowed(level)
    \/ \E decision \in TransitionDecisions : CallApplyStateTransition(decision)
    \/ \E decision \in GateDecisions : CallHandleAuthority(decision)

SpecTracker == Init /\ [][TrackerNext]_vars

-----------------------------------------------------------------------------
(* The MemoryStore methods, called one after the other in any order (SpecMemory) *)

MaxTurns == 5           \* rows of entries of a store that never held a memory item

MaxItems == 2           \* add_memory_item calls

MaxClock == 1           \* the time that passes, in units of 1/decay seconds

MaxBoosts == 2          \* reference scores reach MaxBoosts times PIN_BONUS

MemBuckets == {MakeBucketId(conv) : conv \in Convs}

\* the longest content that a register holds uncut after the speaker "user"
LongContent ==
    Text(MAX_REGISTER_LEN - Len(RegisterPart([speaker |-> SpeakerUser, content |-> <<>>])), "x")

\* the turns handed to record_turn, as <<speaker, content>>
MemTurns == {<<SpeakerAssistant, Text(1, "y")>>, <<SpeakerUser, LongContent>>}

\* the reference scores handed to add_memory_item
MemScores == {0, MaxBoosts * PIN_BONUS}

\* the content handed to the add_memory_item call that returns the id n
ItemContent(n) == <<"m", <<"a", "b", "c", "d", "e", "f", "g", "h", "i", "j", "k", "l", "m">>[n]>>

\* the deltas handed to update_reference
MemDeltas == {PIN_BONUS, -PIN_BONUS}

\* the pinned arguments handed to update_reference along with delta
MemPins(delta) == IF delta < 0 THEN {KeepPinned} ELSE {KeepPinned, "true"}

MemRows == Len(memory.entries) + Len(memory.memory_items)

\* a store that never held a memory item takes MaxTurns turns; a store that did, or
\* is about to, takes a row while it holds at most MaxItems rows
TurnFits == IF memory.next_item_id = 1 THEN MemRows < MaxTurns ELSE MemRows <= MaxItems

ItemFits == memory.next_item_id <= MaxItems /\ MemRows <= MaxItems

\* the record of a call op on bucket_id; cleared holds the buckets that clear_bucket
\* emptied and that no record_turn, add_memory_item or update_reference wrote since,
\* emptied those of them that held a turn and a memory item when they were cleared
MemCalled(op, bucket_id, cleared) ==
    [NoMemCall EXCEPT !.op = op, !.bucket_id = bucket_id, !.cleared = cleared,
                      !.emptied = mcall.emptied \cap cleared]

\* the bucket holds a turn and a memory item
HoldsRows(bucket_id) ==
    RowsOf(memory.entries, bucket_id) # <<>> /\ RowsOf(memory.memory_items, bucket_id) # <<>>

MemoryFrame ==
    UNCHANGED <<trace_vars, guard_vars, tasks, served, ran, raised, reader, route, tcall, scall>>

CallRecordTurn(bucket_id) ==
    /\ TurnFits
    /\ \E turn \in MemTurns :
         memory' = RecordTurn(memory, bucket_id, turn[1], turn[2], now)
    /\ mcall' = MemCalled("record_turn", bucket_id, mcall.cleared \ {bucket_id})
    /\ UNCHANGED now
    /\ MemoryFrame

CallAddMemoryItem(bucket_id) ==
    /\ ItemFits
    /\ \E pinned \in BOOLEAN, reference_score \in MemScores :
         memory' = AddMemoryItem(memory, bucket_id, ItemContent(memory.next_item_id), pinned,
                                 reference_score, now)
    /\ mcall' = [MemCalled("add_memory_item", bucket_id, mcall.cleared \ {bucket_id})
                    EXCEPT !.item_id = memory.next_item_id]
    /\ UNCHANGED now
    /\ MemoryFrame

\* the reference scores stay within 0 and MaxBoosts times PIN_BONUS
DeltaFits(bucket_id, item_id, delta) ==
    \A i \in DOMAIN memory.memory_items :
        (memory.memory_items[i].bucket_id = bucket_id /\ memory.memory_items[i].item_id = item_id)
            => /\ memory.memory_items[i].reference_score + delta <= MaxBoosts * PIN_BONUS
               /\ memory.memory_items[i].reference_score + delta >= 0

CallUpdateReference(bucket_id) ==
    /\ \E item_id \in 1..MaxItems, delta \in MemDeltas :
       \E pinned \in MemPins(delta) :
         /\ DeltaFits(bucket_id, item_id, delta)
         /\ memory' = UpdateReference(memory, bucket_id, item_id, delta, pinned, now)
         /\ mcall' = [MemCalled("update_reference", bucket_id, mcall.cleared \ {bucket_id})
                         EXCEPT !.item_id = item_id]
    /\ UNCHANGED now
    /\ MemoryFrame

CallClearBucket(bucket_id) ==
    /\ memory' = ClearBucket(memory, bucket_id)
    /\ mcall' = [MemCalled("clear_bucket", bucket_id, mcall.cleared \cup {bucket_id}) EXCEPT
                    !.emptied = IF HoldsRows(bucket_id) THEN mcall.emptied \cup {bucket_id}
                                ELSE mcall.emptied \ {bucket_id}]
    /\ UNCHANGED now
    /\ MemoryFrame

CallGetContextPackage(bucket_id) ==
    /\ \E out \in {GetContextPackage(memory, bucket_id, now)} :
         /\ memory' = out.m
         /\ mcall' = [MemCalled("get_context_package", bucket_id, mcall.cleared) EXCEPT
                         !.register_summary = out.register_summary, !.items = out.items]
    /\ UNCHANGED now
    /\ MemoryFrame

CallGetSummary(bucket_id) ==
    /\ mcall' = [MemCalled("get_summary", bucket_id, mcall.cleared) EXCEPT
                    !.summary = GetSummary(memory, bucket_id)]
    /\ UNCHANGED <<memory, now>>
    /\ MemoryFrame

\* time passes between two calls
TimePasses ==
    /\ now < MaxClock
    /\ now' = now + 1
    /\ UNCHANGED <<memory, mcall>>
    /\ MemoryFrame

MemoryNext ==
    \/ \E bucket_id \in MemBuckets : CallRecordTurn(bucket_id)
    \/ \E bucket_id \in MemBuckets : CallAddMemoryItem(bucket_id)
    \/ \E bucket_id \in MemBuckets : CallUpdateReference(bucket_id)
    \/ \E bucket_id \in MemBuckets : CallClearBucket(bucket_id)
    \/ \E bucket_id \in MemBuckets : CallGetContextPackage(bucket_id)
    \/ \E bucket_id \in MemBuckets : CallGetSummary(bucket_id)
    \/ TimePasses

SpecMemory == Init /\ [][MemoryNext]_vars

-----------------------------------------------------------------------------
(* get_context_package run by one thread while other threads write (SpecCache) *)

MaxRebuilds == 2        \* rebuilds one get_context_package call is followed through

ReaderFrame ==
    UNCHANGED <<trace_vars, guard_vars, tasks, served, ran, raised, unit_vars>>

\* get_context_package(bucket_id) is called
ReaderCall(bucket_id) ==
    /\ reader.pc = "idle"
    /\ reader' = [pc |-> "read", bucket_id |-> bucket_id, rebuilds |-> 0, returned |-> FALSE]
    /\ UNCHANGED memory
    /\ ReaderFrame

\* the SELECT on context_cache, made without the lock: a row is returned as the
\* package, no row sends the call to the rebuild
ReaderRead ==
    /\ reader.pc = "read"
    /\ reader' = IF HasCache(memory, reader.bucket_id)
                 THEN [reader EXCEPT !.pc = "idle", !.returned = TRUE]
                 ELSE [reader EXCEPT !.pc = "build"]
    /\ UNCHANGED memory
    /\ ReaderFrame

\* the rebuild under the lock, followed by the call of get_context_package on itself
ReaderBuild ==
    /\ reader.pc = "build"
    /\ reader.rebuilds < MaxRebuilds
    /\ memory' = UpdateContextCache(memory, reader.bucket_id,
                                    BuildRegister(memory, reader.bucket_id), now)
    /\ reader' = [reader EXCEPT !.pc = "read", !.rebuilds = @ + 1]
    /\ ReaderFrame

CacheNext ==
    \/ \E bucket_id \in MemBuckets : ReaderCall(bucket_id)
    \/ ReaderRead
    \/ ReaderBuild
    \/ \E bucket_id \in MemBuckets : CallRecordTurn(bucket_id)
    \/ \E bucket_id \in MemBuckets : CallAddMemoryItem(bucket_id)
    \/ \E bucket_id \in MemBuckets : CallClearBucket(bucket_id)

SpecCache == Init /\ [][CacheNext]_vars

-----------------------------------------------------------------------------
(* The writers of one bucket with more memory items than a rendering shows
   (SpecContext) *)

MaxShown == 11          \* memory items added to the bucket

ShownBucket == MakeBucketId("A")

ShownRecordTurn ==
    /\ Len(memory.entries) < MaxTurns
    /\ memory' = RecordTurn(memory, ShownBucket, SpeakerUser, Text(1, "y"), now)
    /\ mcall' = MemCalled("record_turn", ShownBucket, {})
    /\ UNCHANGED now
    /\ MemoryFrame

ShownAddMemoryItem ==
    /\ memory.next_item_id <= MaxShown
    /\ \E pinned \in BOOLEAN :
         memory' = AddMemoryItem(memory, ShownBucket, ItemContent(memory.next_item_id), pinned,
                                 0, now)
    /\ mcall' = [MemCalled("add_memory_item", ShownBucket, {}) EXCEPT
                    !.item_id = memory.next_item_id]
    /\ UNCHANGED now
    /\ MemoryFrame

\* update_reference for the oldest item
ShownUpdateReference ==
    /\ DeltaFits(ShownBucket, 1, PIN_BONUS)
    /\ \E pinned \in MemPins(PIN_BONUS) :
         memory' = UpdateReference(memory, ShownBucket, 1, PIN_BONUS, pinned, now)
    /\ mcall' = [MemCalled("update_reference", ShownBucket, {}) EXCEPT !.item_id = 1]
    /\ UNCHANGED now
    /\ MemoryFrame

ContextNext ==
    \/ ShownRecordTurn
    \/ ShownAddMemoryItem
    \/ ShownUpdateReference

SpecContext == Init /\ [][ContextNext]_vars

-----------------------------------------------------------------------------
(* The TraceStore methods, called one after the other in any order (SpecStore) *)

\* the state_out values handed to mark_round: absent, empty and a state name
Empty == ""

StoreMarks ==
    MarkInputs \cup {[status |-> "ok", state_out |-> Empty, failure_code |-> None,
                      failure_reason |-> None]}

\* the record of a call op for round_id that found the tables as they are
StoreCalled(op, round_id) ==
    [scall EXCEPT !.op = op, !.round_id = round_id, !.mark = NoMark,
                  !.rounds_before = rounds, !.events_before = events,
                  !.ret_round = <<>>, !.ret_events = <<>>]

\* the latest state_out that is neither absent nor empty
LatestSupplied(old, m) == IF m.state_out \in {None, Empty} THEN old ELSE m.state_out

StoreFrame ==
    UNCHANGED <<lock, conv_locks, pc, tl, ret_rounds, ret_events, explicit_in,
                guard_vars, round_vars, route, tcall, now, mcall>>

CallStartRound(conv) ==
    /\ Rows < MaxRows
    /\ Len(rounds) < MaxRounds
    /\ rounds' = InsertRound(rounds, conv, "DEFAULT")
    /\ scall' = StoreCalled("start_round", NewRoundId(rounds))
    /\ UNCHANGED <<events, exported>>
    /\ StoreFrame

\* the event_seq arguments handed to append_event: none, and one a caller supplies
StoreSeqs == {NoSeq, SeqMax(ExplicitSeqs)}

CallAppendEvent(rid) ==
    /\ Rows < MaxRows
    /\ \E given \in StoreSeqs :
         events' = InsertEvent(events, rid, given, "input.received", "ok")
    /\ scall' = StoreCalled("append_event", rid)
    /\ UNCHANGED <<rounds, exported>>
    /\ StoreFrame

CallMarkRound(rid) ==
    /\ \E m \in StoreMarks :
         /\ rounds' = UpdateRound(rounds, rid, m)
         /\ scall' = [StoreCalled("mark_round", rid) EXCEPT
                         !.mark = m,
                         !.last_mark = [r \in RoundIds |-> IF r = rid THEN m ELSE @[r]],
                         !.supplied = [r \in RoundIds |->
                                          IF r = rid THEN LatestSupplied(@[r], m) ELSE @[r]]]
    /\ UNCHANGED <<events, exported>>
    /\ StoreFrame

\* fetch_round: dict(row) if row else None, as a list of at most one row
CallFetchRound(rid) ==
    /\ scall' = [StoreCalled("fetch_round", rid) EXCEPT
                    !.ret_round = IF rid \in KnownRounds THEN <<FetchRound(rounds, rid)>>
                                  ELSE <<>>]
    /\ UNCHANGED <<rounds, events, exported>>
    /\ StoreFrame

CallFetchEvents(rid) ==
    /\ \E rows \in FetchEvents(events, rid) :
         scall' = [StoreCalled("fetch_events", rid) EXCEPT !.ret_events = rows]
    /\ UNCHANGED <<rounds, events, exported>>
    /\ StoreFrame

\* export_jsonl: the lines of the file, each round followed by its events
RECURSIVE ExportFiles(_, _)
ExportFiles(rows, es) ==
    IF rows = <<>> THEN {<<>>}
    ELSE { <<RoundLine(Head(rows))>> \o EventLines(evs) \o rest :
             evs \in FetchEvents(es, Head(rows).round_id),
             rest \in ExportFiles(Tail(rows), es) }

CallExportJsonl ==
    /\ \E rows \in ExportRows(rounds) : \E file \in ExportFiles(rows, events) :
         exported' = file
    /\ scall' = StoreCalled("export_jsonl", UnknownRound)
    /\ UNCHANGED <<rounds, events>>
    /\ StoreFrame

StoreNext ==
    \/ \E conv \in Convs : CallStartRound(conv)
    \/ \E rid \in KnownRounds \cup {UnknownRound} : CallAppendEvent(rid)
    \/ \E rid \in KnownRounds \cup {UnknownRound} : CallMarkRound(rid)
    \/ \E rid \in KnownRounds \cup {UnknownRound} : CallFetchRound(rid)
    \/ \E rid \in KnownRounds \cup {UnknownRound} : CallFetchEvents(rid)
    \/ CallExportJsonl

SpecStore == Init /\ [][StoreNext]_vars

-----------------------------------------------------------------------------
(* Trace store properties, checked under SpecTrace *)

CountsFromOne(s) == \A i \in DOMAIN s : s[i] = i

\* C1: for every conversation the round_seq values start_round returned are 1, 2, 3, ...
\* in the order the calls took effect, and the stored rounds of the conversation carry
\* them in insertion order, whatever other conversations did in between.
C1_RoundSeqDense ==
    \A c \in Convs :
        /\ CountsFromOne(ret_rounds[c])
        /\ \A i \in DOMAIN rounds :
             rounds[i].conversation_id = c =>
                rounds[i].round_seq =
                    Cardinality({j \in 1..i : rounds[j].conversation_id = c})
        /\ Len(ret_rounds[c]) = Cardinality({j \in DOMAIN rounds : rounds[j].conversation_id = c})

\* a round of B was created between two rounds of A
C1_Witness ==
    /\ Len(rounds) = 3
    /\ rounds[1].conversation_id = "A"
    /\ rounds[2].conversation_id = "B"
    /\ rounds[3].conversation_id = "A"
    /\ ret_rounds["A"] = <<1, 2>>

\* fetch_events returns the events of round r as 1, 2, 3, ... in the order they took effect
FetchInEffectOrder(r) ==
    \A evs \in FetchEvents(events, r) :
        \A i \in DOMAIN evs :
            /\ evs[i].event_seq = i
            /\ \A j \in DOMAIN evs : i < j => evs[i].id < evs[j].id

\* C2 as stated: in every round the append_event calls without an explicit event_seq
\* return 1, 2, 3, ... in the order they take effect.
C2_Original ==
    \A r \in DOMAIN ret_events : CountsFromOne(ret_events[r])

\* C2 amended: the same for every round to which no call supplied an explicit event_seq;
\* fetch_events returns such a round's events in that order.
C2_AllocatedSeqDense ==
    \A r \in DOMAIN ret_events :
        r \notin explicit_in => CountsFromOne(ret_events[r]) /\ FetchInEffectOrder(r)

C2_Witness ==
    \E r \in KnownRounds : r \notin explicit_in /\ ret_events[r] = <<1, 2>>

IsRoundLine(l) == l.type = "round"

\* C3: in the export every event line follows the line of its own round with only
\* event lines of that round in between, and neighbouring event lines ascend in event_seq.
C3_ExportOrder ==
    \A j \in DOMAIN exported :
        ~IsRoundLine(exported[j]) =>
            /\ j > 1
            /\ exported[j - 1].round_id = exported[j].round_id
            /\ ~IsRoundLine(exported[j - 1]) => exported[j - 1].seq <= exported[j].seq

\* an export that reordered two events by event_seq, and an export in progress while
\* another thread waits inside start_round
C3_Witness ==
    \E j \in DOMAIN exported :
          /\ j > 1
          /\ ~IsRoundLine(exported[j]) /\ ~IsRoundLine(exported[j - 1])
          /\ exported[j - 1].id > exported[j].id
          /\ \E t \in Threads : pc[t] = "export_rows"

\* the global lock is held by a thread inside start_round's body or export_jsonl, and
\* a thread that waits for a conversation lock holds no lock
LockOrderKept ==
    /\ lock # "free" => pc[lock] \in {"sr_body", "export_rows"}
    /\ \A t \in Threads : pc[t] = "sr_conv" =>
          lock # t /\ \A c \in Convs : conv_locks[c] # t
    /\ \A t \in Threads : pc[t] = "sr_lock" => lock # t /\ conv_locks[tl[t].conv] = t

\* C37: the calls on one TraceStore never deadlock. The locks are taken in one order,
\* the conversation lock before the global lock, and every call that was begun returns.
\* Checked under SpecTraceLive.
C37_NoDeadlock ==
    /\ []LockOrderKept
    /\ \A t \in Threads : (pc[t] # "idle") ~> (pc[t] = "idle")

\* a start_round waits for the global lock, holding its conversation's lock, while
\* the other thread's export holds the global lock
C37_Witness ==
    \E t \in Threads : \E u \in Threads :
        /\ pc[t] = "sr_lock"
        /\ conv_locks[tl[t].conv] = t
        /\ lock = u
        /\ pc[u] = "export_rows"

-----------------------------------------------------------------------------
(* Authority gate properties, checked under SpecGuard *)

\* the last step was an utterance whose command decision of authority level n reached
\* _handle_authority
GateSawLevel(n) ==
    /\ obs.kind = "utterance"
    /\ obs.gated
    /\ obs.decision.type = "command"
    /\ CmdAuthority(obs.decision) = n

GateOpenState == obs.at_gate.current_state \in {"DEFAULT", "CONVERSATION"}

Level4Steps ==
    /\ ~PendingIsFor(obs.at_gate, obs.decision) =>
           obs.reason = "step 1 of 2" /\ PendingIsFor(tracker, obs.decision)
    /\ PendingIsFor(obs.at_gate, obs.decision) =>
           obs.reason = "step 2 of 2" /\ PendingIsFor(tracker, obs.decision)

\* C4 as stated: in any guard state the gate rejects a level-4 command, with
\* 'step 1 of 2' and a new pending when none exists for its command id, and with
\* 'step 2 of 2' and a replaced pending when one exists.
C4_Original ==
    GateSawLevel(4) => ~obs.allowed /\ Level4Steps

\* C4 amended: the gate never allows a level-4 command in any guard state; in guard
\* state DEFAULT or CONVERSATION it answers 'step 1 of 2' and creates the pending when
\* none exists for the command id, and 'step 2 of 2' with the pending replaced when
\* one exists, however often the command is submitted.
C4_Level4NeverAllowed ==
    GateSawLevel(4) => ~obs.allowed /\ (GateOpenState => Level4Steps)

\* a third identical submission of a level-4 command was rejected with step 2 of 2
C4_Witness ==
    /\ GateSawLevel(4)
    /\ obs.reason = "step 2 of 2"
    /\ obs.owner_before.subs >= 2
    /\ ~obs.allowed

\* C5: a confirm applies the effect of state.enter_planning (guard state PLANNING)
\* only if the command was submitted twice before the confirm.
C5_TwoSubmissionsBeforeConfirm ==
    (obs.kind = "utterance" /\ obs.msg = "Planning mode locked.") =>
        obs.owner_before.subs >= 2

\* C6: in guard state DEFAULT or CONVERSATION a level-3 command with no pending for
\* its command id is rejected with 'Confirm before running.' and gets a pending; with
\* such a pending in place it is allowed; and in no guard state is it allowed without.
C6_Level3OneConfirmation ==
    GateSawLevel(3) =>
        /\ obs.allowed => PendingIsFor(obs.at_gate, obs.decision)
        /\ GateOpenState =>
              /\ ~PendingIsFor(obs.at_gate, obs.decision) =>
                    /\ ~obs.allowed
                    /\ obs.reason = "Confirm before running."
                    /\ PendingIsFor(tracker, obs.decision)
              /\ PendingIsFor(obs.at_gate, obs.decision) =>
                    obs.allowed /\ PendingIsFor(tracker, obs.decision)

\* a level-3 command re-submitted while its pending was in place was allowed
C6_Witness ==
    /\ GateSawLevel(3)
    /\ obs.allowed
    /\ obs.owner_before.subs = 1
    /\ PendingIsFor(obs.at_gate, obs.decision)

\* C7: a command whose authority level exceeds the active chain level is rejected and
\* the pending confirmation is left as it was.
C7_ChainLevelRejects ==
    (/\ obs.kind = "utterance"
     /\ obs.gated
     /\ obs.decision.type = "command"
     /\ obs.at_gate.current_chain_level # NoLevel
     /\ CmdAuthority(obs.decision) > obs.at_gate.current_chain_level)
    => (~obs.allowed /\ tracker.pending = obs.at_gate.pending)

\* C9: while a pending created by an utterance of one conversation is in place, an
\* utterance of another conversation neither consumes or replaces it nor changes the
\* guard state.
C9_ConversationsIsolated ==
    (/\ obs.kind = "utterance"
     /\ obs.owner_before.conv # None
     /\ obs.owner_before.conv # obs.conv)
    => (/\ tracker.pending = obs.before.pending
        /\ tracker.current_state = obs.before.current_state)

-----------------------------------------------------------------------------
(* Round properties, checked under SpecRound *)

\* C8: every round that was marked carries a state_out equal to its state_in.
C8_StateOutEqualsStateIn ==
    \A i \in DOMAIN rounds :
        rounds[i].state_out # None => rounds[i].state_out = rounds[i].state_in

EventTypesOf(rid) == {events[i].event_type : i \in {j \in DOMAIN events : events[j].round_id = rid}}

\* C10: in a round whose decision carries a non-empty conflict list no command handler
\* runs and no command or model call is logged; the round only asks for clarification.
C10_ConflictOnlyClarifies ==
    \A r \in DOMAIN served :
        served[r].conflicts # <<>> =>
            /\ \A x \in ran : x.round_id # r
            /\ EventTypesOf(r) \cap {"command.executed", "llm.request", "llm.response"} = {}

\* the task of a round with a conflict list has asked for clarification and ended
C10_Witness ==
    \E r \in DOMAIN served :
        /\ served[r].conflicts # <<>>
        /\ \A k \in tasks : k.round_id # r
        /\ "confirm.requested" \in EventTypesOf(r)

\* the step is the handler of a state.confirm utterance that finds a pending for a
\* command other than the two enter-mode commands
ConfirmsOtherPending ==
    /\ Len(served') = Len(served) + 1
    /\ served'[Len(served')].command_id = "state.confirm"
    /\ tracker.pending.command_id \notin
           {None, "state.enter_conversation", "state.enter_planning"}

\* C40: a confirm that finds a pending for a command other than the enter-mode
\* commands empties the pending slot, keeps the guard state and runs no handler; a
\* handler runs only in the task of a round whose own decision names its command,
\* which the gate let through, and never in the round of a confirm.
C40_ConfirmRunsNoHandler ==
    [][/\ ConfirmsOtherPending =>
              /\ tracker'.pending = NoPending
              /\ tracker'.current_state = tracker.current_state
              /\ ran' = ran
       /\ \A x \in ran' \ ran :
              /\ served[x.round_id].command_id = x.command_id
              /\ x.command_id # "state.confirm"
              /\ \E k \in tasks : k.round_id = x.round_id]_vars

\* the round after a rejected level-3 command is a confirm that went on to the gate,
\* which only a pending other than an enter-mode command allows; nothing has run
C40_Witness ==
    \E r \in DOMAIN served :
        /\ r > 1
        /\ served[r - 1].command_id \in {"memory.clear_bucket", "ops.restart_agent"}
        /\ served[r].command_id = "state.confirm"
        /\ \E k \in tasks : k.round_id = r
        /\ tracker.pending = NoPending
        /\ ran = {}

\* mark_round was called for the round: every call of the orchestrator hands the
\* guard state as state_out, and start_round stores none
RoundMarked(r) == rounds[r].state_out # None

\* the processing of the round ended: its handler returned and no task of it is left
RoundEnded(r) == \A k \in tasks : k.round_id # r

\* C21: every round whose processing ended was marked by a terminal status update,
\* whatever the path the utterance took.
C21_EndedRoundIsMarked ==
    \A r \in DOMAIN rounds : RoundEnded(r) => RoundMarked(r)

\* the events of round r of the given type and status
EventsOf(r, type, status) ==
    {i \in DOMAIN events : /\ events[i].round_id = r
                           /\ events[i].event_type = type
                           /\ events[i].status = status}

Attempts(r) == Cardinality(EventsOf(r, "llm.request", "ok"))

FailedAttempts(r) == Cardinality(EventsOf(r, "llm.response", "failed"))

Replies(r) == Cardinality(EventsOf(r, "llm.response", "ok"))

\* C24: a round sees at most LLM_RETRY_LIMIT model calls; every call that raised is
\* logged as a failed llm.response; once LLM_RETRY_LIMIT calls have failed the round
\* is marked failed with the code llm.failed, an output is logged, no reply is logged
\* and the task is over; once a call succeeded it is the last call of the round, the
\* task is over and the round is marked ok.
C24_RetryLoopBounded ==
    \A r \in DOMAIN rounds :
        /\ Attempts(r) <= LLM_RETRY_LIMIT
        /\ FailedAttempts(r) + Replies(r) <= Attempts(r)
        /\ Attempts(r) <= FailedAttempts(r) + Replies(r) + 1
        /\ Attempts(r) > FailedAttempts(r) + Replies(r) =>
              \E k \in tasks : k.round_id = r /\ k.pc = "llm_wait"
        /\ FailedAttempts(r) = LLM_RETRY_LIMIT =>
              /\ Replies(r) = 0
              /\ RoundEnded(r)
              /\ rounds[r].status = "failed"
              /\ rounds[r].failure_code = "llm.failed"
              /\ EventsOf(r, "output.emitted", "ok") # {}
        /\ Replies(r) > 0 =>
              /\ Replies(r) = 1
              /\ Attempts(r) = FailedAttempts(r) + 1
              /\ RoundEnded(r)
              /\ rounds[r].status = "ok"
              /\ rounds[r].failure_code = None

\* one round gave up after LLM_RETRY_LIMIT failed calls, another got its reply on a
\* second call
C24_Witness ==
    \E r, q \in DOMAIN rounds :
        /\ FailedAttempts(r) = LLM_RETRY_LIMIT
        /\ rounds[r].status = "failed"
        /\ Replies(q) = 1
        /\ FailedAttempts(q) = 1
        /\ rounds[q].status = "ok"

\* the handler of round r took a decision and left the round marked, answered or to a task
RanToItsEnd(r) ==
    /\ served[r] # NoDecision
    /\ \/ RoundMarked(r)
       \/ \E k \in tasks : k.round_id = r
       \/ EventsOf(r, "output.emitted", "ok") # {}
       \/ EventsOf(r, "llm.request", "ok") # {}
       \/ EventsOf(r, "command.executed", "ok") # {}

\* C23: an append_event call that raises while an utterance is processed does not
\* abort the round: the handler still routes, decides and answers.
\* Checked under SpecFault.
C23_AppendFailureNeverAborts == \A r \in raised : RanToItsEnd(r)

-----------------------------------------------------------------------------
(* Router properties, checked under SpecRouter *)

RouteReturned == route.phase = "returned"

\* the matching rules of minimum priority value
Winners(matched) ==
    {i \in matched : \A j \in matched :
        DEFAULT_ROUTER_RULES[i].priority <= DEFAULT_ROUTER_RULES[j].priority}

FirstOf(S) == CHOOSE i \in S : \A j \in S : i <= j

\* C11: when a rule matches, source_rule names the matching rule of minimum priority
\* value that stands first in the table, and type, require_confirm, urgency and
\* authority_level are that rule's.
C11_SelectsByPriority ==
    (RouteReturned /\ route.matched # {}) =>
        LET rule == DEFAULT_ROUTER_RULES[FirstOf(Winners(route.matched))] IN
        /\ route.decision.source_rule = rule.name
        /\ route.decision.type = rule.rule_type
        /\ route.decision.require_confirm = rule.require_confirm
        /\ route.decision.urgency = rule.urgency
        /\ route.decision.authority_level = rule.authority_level

\* a rule later in the table won by priority
C11_Witness ==
    /\ RouteReturned
    /\ route.matched = {1, 4}
    /\ route.decision.source_rule = "state.enter_conversation"

\* C12: when no rule matches, the decision is type chat with the normalized text as
\* topic, require_confirm false, and no command_id, facet_id or conflict list.
C12_FallbackChat ==
    (RouteReturned /\ route.matched = {}) =>
        /\ route.decision.type = "chat"
        /\ route.decision.topic = NormalizeText(route.transcript)
        /\ route.decision.require_confirm = FALSE
        /\ route.decision.command_id = None
        /\ route.decision.facet_id = None
        /\ ~route.decision.has_conflicts

\* an unmatched transcript with a capital, punctuation and a tab came back normalized
C12_Witness ==
    /\ RouteReturned
    /\ route.matched = {}
    /\ route.transcript = <<"A", "!", "\t">>
    /\ route.decision.topic = <<"a">>

\* the ids of the rules in S that define a command or facet id, in table order
RECURSIVE IdsInTableOrder(_)
IdsInTableOrder(S) ==
    IF S = {} THEN <<>>
    ELSE LET r == DEFAULT_ROUTER_RULES[FirstOf(S)] IN
         (IF r.command_id # None THEN <<r.command_id>>
          ELSE IF r.facet_id # None THEN <<r.facet_id>>
          ELSE <<>>) \o IdsInTableOrder(S \ {FirstOf(S)})

\* C13: with two or more matching rules at the minimum priority the conflict list holds
\* the command id or else facet id of every tied rule, in table order, the first
\* candidate's included; with exactly one such rule there is no conflict list.
C13_ConflictList ==
    (RouteReturned /\ route.matched # {}) =>
        IF Cardinality(Winners(route.matched)) >= 2
        THEN /\ route.decision.has_conflicts
             /\ route.decision.conflicts = IdsInTableOrder(Winners(route.matched))
        ELSE /\ ~route.decision.has_conflicts
             /\ route.decision.conflicts = <<>>

\* the tie of research.launch and memory.show
C13_Witness ==
    /\ RouteReturned
    /\ Cardinality(Winners(route.matched)) = 2
    /\ route.decision.conflicts = <<"job.create", "memory.show_bucket">>

-----------------------------------------------------------------------------
(* StateTracker properties, checked under SpecTracker *)

\* C17: enter_state(X) sets the current state to X, empties the pending and the chain
\* level, and leaves the level-2 undo slot and the captured round-start state alone.
C17_EnterStateEffect ==
    tcall.op = "enter_state" =>
        /\ tracker.current_state = tcall.cmd
        /\ tracker.pending = NoPending
        /\ tracker.current_chain_level = NoLevel
        /\ tracker.last_level2 = tcall.before.last_level2
        /\ tracker.state_in_round = tcall.before.state_in_round

\* enter_state found a pending, a chain level, an undo entry and a captured state
C17_Witness ==
    /\ tcall.op = "enter_state"
    /\ tcall.cmd = "COMMAND_LOCK"
    /\ HasPending(tcall.before)
    /\ tcall.before.current_chain_level = 4
    /\ tcall.before.last_level2 # NoPending
    /\ tcall.before.state_in_round = "PLANNING"
    /\ tcall.before.current_state = "CONVERSATION"

\* C20: confirm_pending returns the pending it finds and empties the slot without
\* touching anything else; a confirm right after a confirm returns nothing; with no
\* pending _apply_state_transition answers 'Nothing pending to confirm.' and changes
\* nothing.
C20_ConfirmConsumesOnce ==
    /\ tcall.op = "confirm_pending" =>
          /\ tcall.ret = tcall.before.pending
          /\ tracker = [tcall.before EXCEPT !.pending = NoPending]
          /\ tcall.after_confirm => tcall.ret = NoPending
    /\ (tcall.op = "apply_state_transition" /\ tcall.cmd = "state.confirm"
            /\ ~HasPending(tcall.before)) =>
          /\ tcall.msg = "Nothing pending to confirm."
          /\ tracker = tcall.before

\* a second confirm directly after a confirm
C20_Witness ==
    /\ tcall.op = "confirm_pending"
    /\ tcall.after_confirm
    /\ tcall.ret = NoPending
    /\ tcall.before.current_state = "CONVERSATION"


\* the gate was called last, in a guard state other than DEFAULT and CONVERSATION
GateCalledLocked ==
    tcall.op = "handle_authority" /\ tcall.before.current_state \notin {"DEFAULT", "CONVERSATION"}

\* C30: outside DEFAULT and CONVERSATION the gate rejects a command of level 3 or 4
\* with the reason "Commands are locked in the current state." and leaves the pending
\* confirmation as it was; it allows a command of level 1 or 2.
C30_LockedStatesRejectHighLevels ==
    GateCalledLocked =>
        /\ tcall.level \in {3, 4} =>
              /\ ~tcall.ok
              /\ tcall.msg = "Commands are locked in the current state."
              /\ tracker.pending = tcall.before.pending
        /\ tcall.level \in {1, 2} => tcall.ok /\ tcall.msg = None

\* a level-4 command was rejected in COMMAND_LOCK while a pending was in place, and a
\* level-2 command was let through in a locked state
C30_Witness ==
    /\ GateCalledLocked
    /\ tcall.level = 4
    /\ tcall.before.current_state = "COMMAND_LOCK"
    /\ HasPending(tcall.before)
    /\ ~tcall.ok

\* the last call was the gate allowing a level-2 command
AllowedLevel2 == tcall.op = "handle_authority" /\ tcall.level = 2 /\ tcall.ok

\* C32: the undo slot holds one entry. An allowed level-2 command overwrites it with
\* its command id, undo_last returns the entry it finds and empties the slot (so that
\* an undo_last on an empty slot returns nothing), and no other call changes the slot.
C32_UndoSlotSingle ==
    /\ AllowedLevel2 => tracker.last_level2.command_id = tcall.cmd
    /\ tcall.op = "undo_last" =>
          /\ tcall.ret = tcall.before.last_level2
          /\ tracker.last_level2 = NoPending
    /\ (~AllowedLevel2 /\ tcall.op \notin {"undo_last", "register_level2", "none"}) =>
          tracker.last_level2 = tcall.before.last_level2

\* undo_last returned the command that the gate registered over an older entry
C32_Witness ==
    /\ tcall.op = "undo_last"
    /\ tcall.ret.command_id = "memory.add_note"
    /\ tracker.last_level2 = NoPending

-----------------------------------------------------------------------------
(* Exit command properties, checked under SpecGuard *)

ExitRound == obs.kind = "utterance" /\ obs.decision.command_id = "state.exit"

\* C18: a round whose decision is state.exit ends in guard state DEFAULT, answered by
\* the state transition before the authority gate is asked.
C18_ExitReachesDefault ==
    ExitRound =>
        /\ tracker.current_state = "DEFAULT"
        /\ obs.path = "state"
        /\ obs.msg = "Returned to default state."

\* an exit out of the locked state PLANNING
C18_Witness ==
    /\ ExitRound
    /\ obs.before.current_state = "PLANNING"
    /\ tracker.current_state = "DEFAULT"

\* C19: a round whose decision is state.exit leaves the pending confirmation and the
\* chain level as they were.
C19_ExitKeepsPendingAndChain ==
    ExitRound =>
        /\ tracker.pending = obs.before.pending
        /\ tracker.current_chain_level = obs.before.current_chain_level

\* the last step was a round whose command decision reached the authority gate
GateRound == obs.kind = "utterance" /\ obs.gated /\ obs.decision.type = "command"

\* C31: after a call of the gate on a command decision the chain level is the maximum
\* of its value at the call (0 when unset) and the command's authority level.
C31_ChainLevelIsMax ==
    GateRound =>
        tracker.current_chain_level =
            Max(obs.at_gate.current_chain_level, CmdAuthority(obs.decision))

FirstStepReasons == {"step 1 of 2", "Confirm before running."}

\* the gate was asked for a level-3 or level-4 command that the pending was not for
UnmatchedHighLevel ==
    /\ GateRound
    /\ CmdAuthority(obs.decision) \in {3, 4}
    /\ ~PendingIsFor(obs.at_gate, obs.decision)

\* C33: the gate called for a level-3 or level-4 command that the pending is not for
\* never allows it; where a pending for another command is in place it replaces that
\* pending by one for the submitted command and asks for the first confirmation, so
\* that the older command, submitted again, meets a pending that is not for it.
C33_NewPendingDiscardsOld ==
    UnmatchedHighLevel =>
        /\ ~obs.allowed
        /\ HasPending(obs.at_gate) =>
              /\ tracker.pending.command_id = obs.decision.command_id
              /\ obs.reason \in FirstStepReasons

\* a pending for state.enter_planning was replaced by one for ops.restart_agent
C33_Witness ==
    /\ UnmatchedHighLevel
    /\ obs.at_gate.pending.command_id = "state.enter_planning"
    /\ obs.decision.command_id = "ops.restart_agent"
    /\ tracker.pending.command_id = "ops.restart_agent"

\* the gate was asked for a level-3 command while the pending was for it
MatchedLevel3 ==
    /\ GateRound
    /\ CmdAuthority(obs.decision) = 3
    /\ PendingIsFor(obs.at_gate, obs.decision)

\* the step that was taken may remove or replace a pending: a confirm, an exit, a
\* session close, or a level-3 or level-4 command that the pending was not for
MayRemovePending ==
    \/ obs.kind = "close"
    \/ obs.kind = "utterance" /\ obs.decision.command_id \in {"state.confirm", "state.exit"}
    \/ UnmatchedHighLevel

ConflictRound == obs.kind = "utterance" /\ obs.decision.has_conflicts

\* C38: a round whose decision carries a conflict list leaves the pending
\* confirmation, the level-2 undo slot, the guard state and the chain level unchanged.
C38_ConflictLeavesTracker ==
    ConflictRound =>
        /\ tracker.pending = obs.before.pending
        /\ tracker.last_level2 = obs.before.last_level2
        /\ tracker.current_state = obs.before.current_state
        /\ tracker.current_chain_level = obs.before.current_chain_level

EnterCommands == {"state.enter_conversation", "state.enter_planning"}

\* the last step changed the guard state
StateChanged == tracker.current_state # obs.before.current_state

\* C39: the guard state changes only in a round of state.exit or of a state.confirm
\* that finds a pending enter-mode command, the guard state is always DEFAULT,
\* CONVERSATION or PLANNING, and a round of an enter-mode command leaves it alone.
C39_StateChangesByConfirmOrExit ==
    /\ tracker.current_state \in {"DEFAULT", "CONVERSATION", "PLANNING"}
    /\ StateChanged =>
          /\ obs.kind = "utterance"
          /\ \/ obs.decision.command_id = "state.exit"
             \/ /\ obs.decision.command_id = "state.confirm"
                /\ obs.before.pending.command_id \in EnterCommands
    /\ (obs.kind = "utterance" /\ obs.decision.command_id \in EnterCommands) => ~StateChanged

\* a confirm moved the guard from CONVERSATION to PLANNING after the enter-mode
\* command had been submitted twice
C39_Witness ==
    /\ obs.kind = "utterance"
    /\ obs.decision.command_id = "state.confirm"
    /\ obs.before.pending.command_id = "state.enter_planning"
    /\ obs.owner_before.subs = 2
    /\ obs.before.current_state = "CONVERSATION"
    /\ tracker.current_state = "PLANNING"

-----------------------------------------------------------------------------
(* Memory store properties, checked under SpecMemory *)

Ellipsis == <<".", ".", ".">>

\* reg is a register of at most MAX_REGISTER_LEN characters; when the full text is
\* longer it was cut to exactly that length and ends with the ellipsis
RegisterCapped(reg, full) ==
    /\ Len(reg) <= MAX_REGISTER_LEN
    /\ Len(full) > MAX_REGISTER_LEN =>
          /\ Len(reg) = MAX_REGISTER_LEN
          /\ SubSeq(reg, MAX_REGISTER_LEN - 2, MAX_REGISTER_LEN) = Ellipsis

\* C14: after any sequence of record_turn calls the summary stored for a bucket, the
\* register_summary of its cached package, the value get_summary returns and the
\* register_summary get_context_package returns are at most 140 characters long, and
\* a register whose full text is longer is exactly 140 characters and ends with "...".
C14_RegisterCapped ==
    /\ \A b \in memory.buckets : RegisterCapped(b.summary, FullRegister(memory, b.id))
    /\ \A c \in memory.context_cache :
          RegisterCapped(c.register_summary, FullRegister(memory, c.bucket_id))
    /\ (mcall.op = "get_summary" /\ mcall.summary # NoSummary) =>
          RegisterCapped(mcall.summary, FullRegister(memory, mcall.bucket_id))
    /\ mcall.op = "get_context_package" =>
          RegisterCapped(mcall.register_summary, FullRegister(memory, mcall.bucket_id))

\* get_summary returned a cut register of a bucket that holds more turns than the
\* register covers
C14_Witness ==
    /\ mcall.op = "get_summary"
    /\ Len(RowsOf(memory.entries, mcall.bucket_id)) > REGISTER_LIMIT
    /\ Len(FullRegister(memory, mcall.bucket_id)) > MAX_REGISTER_LEN
    /\ Len(mcall.summary) = MAX_REGISTER_LEN
    /\ SubSeq(mcall.summary, MAX_REGISTER_LEN - 2, MAX_REGISTER_LEN) = Ellipsis

\* C15: in the item list get_context_package returns no non-pinned item stands before
\* a pinned item.
C15_PinnedFirst ==
    mcall.op = "get_context_package" =>
        \A i, j \in DOMAIN mcall.items :
            (i < j /\ mcall.items[j].pinned) => mcall.items[i].pinned

\* C16: a get_context_package on a bucket that clear_bucket emptied and that was not
\* written since returns no item and an empty register summary, and a get_summary on
\* it returns None.
C16_ClearedBucketIsEmpty ==
    /\ (mcall.op = "get_context_package" /\ mcall.bucket_id \in mcall.cleared) =>
          /\ mcall.items = <<>>
          /\ mcall.register_summary = <<>>
    /\ (mcall.op = "get_summary" /\ mcall.bucket_id \in mcall.cleared) =>
          mcall.summary = NoSummary

\* the package of a bucket that held a turn and an item before it was cleared was
\* read while the other bucket holds a turn and an item
C16_Witness ==
    /\ mcall.op = "get_context_package"
    /\ mcall.bucket_id \in mcall.emptied
    /\ \E b \in MemBuckets \ mcall.cleared : HoldsRows(b)
    /\ mcall.items = <<>>
    /\ mcall.register_summary = <<>>

\* the stored reference_score of a memory item does not go down in this step
ScoreKept(i) ==
    \A j \in DOMAIN memory'.memory_items :
        memory'.memory_items[j].item_id = memory.memory_items[i].item_id
            => memory'.memory_items[j].reference_score >= memory.memory_items[i].reference_score

\* C28: over any sequence of update_reference calls the stored reference_score of a
\* memory item never decreases.
C28_ScoreNeverDecreases == [][\A i \in DOMAIN memory.memory_items : ScoreKept(i)]_vars

\* C29: one get_context_package call rebuilds the cache at most once, whatever
\* record_turn, add_memory_item and clear_bucket calls run beside it.
\* Checked under SpecCache.
C29_OneRebuildPerCall == reader.rebuilds <= 1

\* text.split("\n"), with line holding the characters of the line being read
RECURSIVE SplitLines(_, _)
SplitLines(text, line) ==
    IF text = <<>> THEN <<line>>
    ELSE IF Head(text) = NewLine THEN <<line>> \o SplitLines(Tail(text), <<>>)
    ELSE SplitLines(Tail(text), Append(line, Head(text)))

\* the lines of a rendering; the empty rendering has none
Lines(text) == IF text = <<>> THEN <<>> ELSE SplitLines(text, <<>>)

\* the rendering shows, line by line, the first limit entries of items
Renders(text, items, limit) ==
    Lines(text) =
        [k \in 1..(IF Len(items) < limit THEN Len(items) ELSE limit) |->
            (IF items[k].pinned THEN <<"[", "P", "I", "N", "]">> ELSE <<>>) \o items[k].content]

\* items lists every memory item of the bucket once, with its stored fields and its
\* score at time t, by descending score
IsRankingOf(items, rows, t) ==
    /\ Len(items) = Len(rows)
    /\ \A i \in DOMAIN rows : \E k \in DOMAIN items :
         /\ items[k].item_id = rows[i].item_id
         /\ items[k].pinned = rows[i].pinned
         /\ items[k].content = rows[i].content
         /\ items[k].score = ItemScore(rows[i], t)
    /\ \A k \in DOMAIN items : \A l \in DOMAIN items : k < l => items[k].score >= items[l].score

\* the register of the last four turns, oldest first
IsRegisterOf(register, turns) ==
    LET first == IF Len(turns) > 4 THEN Len(turns) - 3 ELSE 1
    IN  register = CapRegister(JoinParts([i \in 1..(Len(turns) - first + 1) |->
                                            RegisterPart(turns[first + i - 1])]))

\* the last call wrote to its bucket
WroteBucket == mcall.op \in {"record_turn", "add_memory_item", "update_reference"}

\* C35: after record_turn, add_memory_item or update_reference the bucket has exactly
\* one cached package; it holds the register of the last four turns, the ranked list
\* of all items, the short rendering of the first three and the long rendering of the
\* first ten of them, pinned items tagged [PIN].
C35_CacheWriteThrough ==
    WroteBucket =>
        /\ Cardinality({c \in memory.context_cache : c.bucket_id = mcall.bucket_id}) = 1
        /\ \A c \in memory.context_cache :
             c.bucket_id = mcall.bucket_id =>
                /\ IsRegisterOf(c.register_summary, RowsOf(memory.entries, mcall.bucket_id))
                /\ IsRankingOf(c.items, RowsOf(memory.memory_items, mcall.bucket_id), now)
                /\ Renders(c.short_context, c.items, 3)
                /\ Renders(c.long_context, c.items, 10)

\* the eleventh item was added to a bucket of five turns whose first-ranked item is
\* pinned: neither rendering shows every item and the register leaves a turn out
C35_Witness ==
    /\ mcall.op = "add_memory_item"
    /\ Len(RowsOf(memory.entries, mcall.bucket_id)) = 5
    /\ \E c \in memory.context_cache :
         /\ c.bucket_id = mcall.bucket_id
         /\ Len(c.items) = 11
         /\ c.items[1].pinned /\ ~c.items[11].pinned
         /\ Len(Lines(c.short_context)) = 3
         /\ Len(Lines(c.long_context)) = 10

-----------------------------------------------------------------------------
(* Trace store properties, checked under SpecStore *)

\* C22: after any sequence of mark_round calls a round carries the status,
\* failure_code and failure_reason of the latest call, and its state_out is the latest
\* state_out a call supplied that was neither absent nor empty.
C22_MarkOverwrites ==
    \A r \in KnownRounds :
        scall.last_mark[r] # NoMark =>
            /\ rounds[r].status = scall.last_mark[r].status
            /\ rounds[r].failure_code = scall.last_mark[r].failure_code
            /\ rounds[r].failure_reason = scall.last_mark[r].failure_reason
            /\ rounds[r].state_out = scall.supplied[r]

IsPrefix(s, t) == Len(s) <= Len(t) /\ \A i \in DOMAIN s : s[i] = t[i]

\* the fields of a round that mark_round may set, taken from another row
WithMarkFieldsOf(row, other) ==
    [row EXCEPT !.status = other.status, !.state_out = other.state_out,
                !.failure_code = other.failure_code, !.failure_reason = other.failure_reason]

\* C25: no call of start_round, append_event, mark_round or export_jsonl removes or
\* changes a stored event or removes a round; mark_round(r) changes no round other
\* than r, and of r only status, state_out, failure_code and failure_reason; every
\* other call changes no field of a stored round.
C25_AppendOnly ==
    /\ IsPrefix(scall.events_before, events)
    /\ Len(scall.rounds_before) <= Len(rounds)
    /\ \A i \in DOMAIN scall.rounds_before :
          IF scall.op = "mark_round" /\ rounds[i].round_id = scall.round_id
          THEN WithMarkFieldsOf(rounds[i], scall.rounds_before[i]) = scall.rounds_before[i]
          ELSE rounds[i] = scall.rounds_before[i]

\* mark_round changed one of two stored rounds while an event is stored and a file
\* was exported
C25_Witness ==
    /\ scall.op = "mark_round"
    /\ Len(rounds) >= 2
    /\ events # <<>>
    /\ exported # <<>>
    /\ rounds # scall.rounds_before

\* C26: the round_id of every stored event is the id of a round start_round created.
C26_EventsBelongToRounds ==
    \A i \in DOMAIN events : events[i].round_id \in KnownRounds

\* C27: for a round id that no start_round returned, fetch_round returns nothing,
\* fetch_events returns an empty list and mark_round changes no round.
C27_UnknownRoundIsInert ==
    scall.round_id \notin KnownRounds =>
        /\ scall.op = "fetch_round" => scall.ret_round = <<>>
        /\ scall.op = "fetch_events" => scall.ret_events = <<>>
        /\ scall.op = "mark_round" => rounds = scall.rounds_before

\* C36: no two stored events of a round share an event_seq, whether the store
\* allocated the numbers or the caller supplied them.
C36_EventSeqUnique ==
    \A i \in DOMAIN events : \A j \in DOMAIN events :
        (i # j /\ events[i].round_id = events[j].round_id)
            => events[i].event_seq # events[j].event_seq

=============================================================================
